---- MODULE Spec2Model ----
(***************************************************************************)
(* CRM backend: segment rule evaluation, campaign creation and the         *)
(* simulated delivery pipeline (message queue drain loop, dummy vendor     *)
(* API, delivery receipt endpoint), with the campaign / segment CRUD       *)
(* handlers that guard them.                                                *)
(*                                                                         *)
(* The MongoDB collections are modelled as sequences in insertion order    *)
(* (the natural order of an unsorted find / findOne); every document       *)
(* carries its _id.  Awaited steps of a handler that other timers or       *)
(* requests can interleave with are separate actions.                      *)
(***************************************************************************)
EXTENDS Integers, Sequences, FiniteSets, TLC

VARIABLES
    customers,      \* customers collection: seq of documents
    segments,       \* segments collection: seq of documents
    campaigns,      \* campaigns collection: seq of documents
    sentMessages,   \* sent_messages collection: seq of documents
    commLogs,       \* communication_log collection: seq of documents
    ids,            \* next _id of the campaigns / sent_messages / communication_log collections
    now,            \* Date.now()
    isProcessing,   \* MessageQueueService.isProcessing
    drain,          \* the drain in flight: _id of the picked sent message, 0 when none
    cad,            \* the createCampaign request (createAndDeliverCampaign) and its response
    cva,            \* the createCampaignWithVendorAPI request and its response
    vendorReqs,     \* POSTs to the vendor API sent and not yet handled
    receiptReqs,    \* POSTs of the vendor route to the delivery receipt URL, not yet handled
    envReceiptUrl,  \* process.env.DELIVERY_RECEIPT_URL
    redis,          \* env.redisEnabled: whether the Redis connection, and so the orders queue, exists
    ordersQueue,    \* the jobs waiting in the BullMQ queue 'orders', oldest first
    orders,         \* orders collection: seq of documents
    ingest,         \* history of POST /orders: the requests received and those answered 201
    deliveryTimers, \* VendorApiService: receipts whose setTimeout has not fired yet
    deliveryQueue,  \* VendorApiService.deliveryQueue: the receipts of the map
    receiptQueue,   \* VendorService.receiptQueue
    processor,      \* MessageQueueService: its timers and the drains in flight
    posted,         \* number of requests other callers made (receipts, resource requests)
    stats,          \* the getCampaignStats request: its position, counts read and response
    resp            \* the last response of the one-step handlers (receipt, update, delete, read)

vars == <<customers, segments, campaigns, sentMessages, commLogs, ids, now,
          isProcessing, drain, cad, cva, vendorReqs, receiptReqs, envReceiptUrl,
          redis, ordersQueue, orders, ingest, deliveryTimers, deliveryQueue, receiptQueue, processor, posted, stats, resp>>

stores == <<customers, segments, campaigns, sentMessages, commLogs>>

simulators == <<deliveryTimers, deliveryQueue, receiptQueue>>

orderStores == <<redis, ordersQueue, orders, ingest>>

None == "none"       \* an absent string field (undefined / null)
NoDate == -1         \* an absent Date field
NoCampaign == 0      \* an absent campaign reference; '' as a campaign id
NoMessageId == <<>>  \* an absent message id

----------------------------------------------------------------------------
(* Bounds *)

MaxCampaigns == 1       \* campaigns created in one behaviour
MaxNow == 1             \* clock ticks in one behaviour
MaxReasons == 1         \* failure reasons drawn from the catalog
MaxTplLen == 6          \* tokens in a request's message template
MaxPosted == 1          \* receipts posted by callers other than the vendor route
MaxTotal == 32          \* communication logs counted by one statistics request
MaxNewSegments == 1     \* segments created in one behaviour
MaxRuleLen == 2         \* entries of an and / or list of a rule tree
MaxCrud == 1            \* update / delete / read requests in one behaviour
MaxSends == 2           \* messages handed to the delivery simulators in one behaviour
MaxEmails == 2          \* single and bulk email requests in one behaviour
MaxWakeUps == 3         \* wake-ups of the queue timers in one behaviour
MaxTimers == 2          \* timers the message queue sets in one behaviour
MaxOrders == 2          \* order-ingestion requests in one behaviour

----------------------------------------------------------------------------
(* Sequence helpers *)

Range(s) == {s[i] : i \in DOMAIN s}

\* index of the first element of s satisfying Test, 0 when there is none
FirstIndex(s, Test(_)) ==
    IF \E i \in DOMAIN s : Test(s[i])
    THEN CHOOSE i \in DOMAIN s : Test(s[i]) /\ \A j \in 1..(i - 1) : ~Test(s[j])
    ELSE 0

----------------------------------------------------------------------------
(* Rule evaluator: src/src/services/segmentRules.ts *)

compare(a, op, b) ==
    CASE op = ">"  -> a > b
      [] op = ">=" -> a >= b
      [] op = "<"  -> a < b
      [] op = "<=" -> a <= b
      [] op = "==" -> a = b
      [] op = "!=" -> a # b
      [] OTHER     -> FALSE

\* Number.MAX_SAFE_INTEGER (2^53 - 1), cut to the largest integer TLC represents
MAX_SAFE_INTEGER == 2147483647

\* a null entry of a rule list
Null == [null |-> TRUE]

IsNull(rule) == "null" \in DOMAIN rule

RECURSIVE evaluateRuleOutcome(_, _), every(_, _, _), some(_, _, _)

\* list.every(r => evaluateRule(customer, r)) from entry i on: stops at the first false
every(customer, list, i) ==
    IF i > Len(list) THEN "true"
    ELSE LET o == evaluateRuleOutcome(customer, list[i])
         IN  IF o = "true" THEN every(customer, list, i + 1) ELSE o

\* list.some(r => evaluateRule(customer, r)) from entry i on: stops at the first true
some(customer, list, i) ==
    IF i > Len(list) THEN "false"
    ELSE LET o == evaluateRuleOutcome(customer, list[i])
         IN  IF o = "false" THEN some(customer, list, i + 1) ELSE o

\* what a call of evaluateRule does: returns "true" or "false", or "throws"
\* ('field' in rule is a TypeError when rule is null)
evaluateRuleOutcome(customer, rule) ==
    IF IsNull(rule) THEN "throws"
    ELSE IF "field" \in DOMAIN rule
    THEN IF rule.field = "inactive_days"
         THEN LET days == IF customer.last_active # NoDate
                          THEN now - customer.last_active
                          ELSE MAX_SAFE_INTEGER
              IN  IF compare(days, rule.op, rule.value) THEN "true" ELSE "false"
         ELSE LET actual == IF rule.field \in DOMAIN customer
                            THEN customer[rule.field] ELSE 0
              IN  IF compare(actual, rule.op, rule.value) THEN "true" ELSE "false"
    ELSE IF "and" \in DOMAIN rule
    THEN every(customer, rule.and, 1)
    ELSE IF "or" \in DOMAIN rule
    THEN some(customer, rule.or, 1)
    ELSE "true"

\* the value evaluateRule returns on a rule tree without null entries
evaluateRule(customer, rule) == evaluateRuleOutcome(customer, rule) = "true"

----------------------------------------------------------------------------
(* Message templates: src/unnamed/part_014 (MessagePersonalizationService) *)
(* A template is a sequence of tokens: "{", "}" and brace-free words; no   *)
(* two words are adjacent (a maximal brace-free run is one word).          *)

Words == {"name", "foo"}
Tokens == {"{", "}"} \cup Words

IsWord(t) == t \notin {"{", "}"}

getAvailablePlaceholders ==
    { <<"{", w, "}">> : w \in {"customerName", "customerEmail", "customerPhone",
                                "customerSpend", "customerVisits", "lastActive",
                                "name", "Name", "email", "phone",
                                "discount", "storeName", "couponCode"} }

\* end of the match of /\{[^}]+\}/ that starts at position i of m, 0 when none starts there
MatchEnd(m, i) ==
    IF i + 2 <= Len(m) /\ m[i] = "{" /\ m[i + 1] # "}"
          /\ \E j \in (i + 2)..Len(m) : m[j] = "}"
    THEN CHOOSE j \in (i + 2)..Len(m) :
            m[j] = "}" /\ \A k \in (i + 1)..(j - 1) : m[k] # "}"
    ELSE 0

RECURSIVE MatchAll(_, _)
\* message.match(/\{[^}]+\}/g): the non-overlapping matches from position i on, left to right
MatchAll(m, i) ==
    IF i > Len(m) THEN <<>>
    ELSE IF MatchEnd(m, i) # 0
         THEN <<SubSeq(m, i, MatchEnd(m, i))>> \o MatchAll(m, MatchEnd(m, i) + 1)
         ELSE MatchAll(m, i + 1)

\* validateTemplate with match lacking the g flag: only the first match is looked at
validateTemplate_FirstMatchOnly(message) ==
    LET all == MatchAll(message, 1)
        foundPlaceholders == IF all = <<>> THEN <<>> ELSE <<all[1]>>
        invalidPlaceholders ==
            SelectSeq(foundPlaceholders, LAMBDA p : p \notin getAvailablePlaceholders)
    IN  [isValid |-> invalidPlaceholders = <<>>, invalidPlaceholders |-> invalidPlaceholders]

validateTemplate(message) ==
    LET foundPlaceholders == MatchAll(message, 1)
        invalidPlaceholders ==
            SelectSeq(foundPlaceholders, LAMBDA p : p \notin getAvailablePlaceholders)
    IN  [isValid |-> invalidPlaceholders = <<>>, invalidPlaceholders |-> invalidPlaceholders]

----------------------------------------------------------------------------
(* Identifiers and request inputs *)

Users == {"u1", "u2"}
SegmentIds == {"s1", "s2", "s3"}
MissingId == "missing"          \* an _id no document has

\* message templates the delivery requests draw from
Templates == { <<"name", "{", "name", "}">>, <<"{", "foo", "}">> }

\* every template of at most MaxTplLen tokens
AllTemplates ==
    UNION { { t \in [1..n -> Tokens] :
                \A i \in 1..(n - 1) : ~(IsWord(t[i]) /\ IsWord(t[i + 1])) } : n \in 1..MaxTplLen }

\* the failure catalog of MessageQueueService.processQueue and of the vendor route
failureReasons ==
    << "Invalid email address", "Recipient mailbox full", "Domain not found",
       "Recipient blocked sender", "Temporary delivery failure", "Network timeout",
       "Recipient server unavailable", "Message too large", "Spam filter blocked",
       "Authentication failed" >>

ReasonIdx == 1..MaxReasons

Terminal == {"SENT", "FAILED"}
NonTerminal == {"QUEUED", "PENDING"}

\* the path the delivery receipt endpoint is routed at, and the path the vendor route
\* posts receipts to when DELIVERY_RECEIPT_URL is not set
ReceiptRoute == "/api/delivery/receipt"
DefaultReceiptUrl == "/api/delivery-receipt"

----------------------------------------------------------------------------
(* Collections *)

Find(coll, Test(_)) == SelectSeq(coll, Test)

\* whether findOne(Test) finds a document, and the document it finds
Has(coll, Test(_)) == FirstIndex(coll, Test) # 0

FindOne(coll, Test(_)) == coll[FirstIndex(coll, Test)]

FindById(coll, id) == FindOne(coll, LAMBDA d : d._id = id)

\* findOneAndUpdate / findByIdAndUpdate: the first document satisfying Test gets the fields of upd
UpdateFirst(coll, Test(_), upd) ==
    LET k == FirstIndex(coll, Test)
    IN  [i \in DOMAIN coll |->
            IF i = k
            THEN [f \in DOMAIN coll[i] |-> IF f \in DOMAIN upd THEN upd[f] ELSE coll[i][f]]
            ELSE coll[i]]

Ids(s) == [i \in DOMAIN s |-> s[i]._id]

InitCustomers ==
    << [_id |-> "c1", userId |-> "u1", spend |-> 500,  visits |-> 1, last_active |-> NoDate],
       [_id |-> "c2", userId |-> "u1", spend |-> 1500, visits |-> 3, last_active |-> 0],
       [_id |-> "c3", userId |-> "u2", spend |-> 1000, visits |-> 0, last_active |-> NoDate] >>

InitSegments ==
    << [_id |-> "s1", userId |-> "u1",
        rules_json |-> [and |-> << [field |-> "spend", op |-> ">", value |-> 100] >>,
                        or |-> <<>>],
        customer_ids |-> <<"c1", "c2">>, customer_count |-> 2, last_populated_at |-> 0],
       [_id |-> "s2", userId |-> "u1",
        rules_json |-> [and |-> << [field |-> "spend", op |-> ">", value |-> 2000] >>,
                        or |-> <<>>],
        customer_ids |-> <<>>, customer_count |-> 0, last_populated_at |-> 0],
       [_id |-> "s3", userId |-> "u2",
        rules_json |-> [and |-> <<>>,
                        or |-> << [field |-> "visits", op |-> ">=", value |-> 0] >>],
        customer_ids |-> <<"c3">>, customer_count |-> 1, last_populated_at |-> 0] >>

IdleCad ==
    [pc |-> "idle", message |-> <<>>, userId |-> None, segmentId |-> None,
     campaignId |-> NoCampaign, customers |-> <<>>, i |-> 0, deliveryLogs |-> <<>>,
     messagesQueued |-> 0, messagesFailed |-> 0, result |-> [code |-> 0]]

IdleCva ==
    [pc |-> "idle", userId |-> None, campaignId |-> NoCampaign, customers |-> <<>>, i |-> 0,
     communicationLogs |-> 0, result |-> [code |-> 0]]

IdleStats ==
    [pc |-> "idle", userId |-> None, campaignId |-> NoCampaign, total |-> 0, sent |-> 0,
     failed |-> 0, pending |-> 0, result |-> [code |-> 0]]

\* the state after start-up, but for the segments, the requests under way and the
\* last response
\* MessageQueueService after its constructor: the first timer runs, nothing in flight
\*   processingDelay    : the interval of the timer, in ms
\*   processingInterval : the handle of the current timer, 0 for null
\*   timers             : the handles of the timers that can still fire
\*   wakeUps            : the wake-ups so far; busyWakeUps: those that found the flag set
\*   running            : the _id of the picked message of every drain in flight
InitProcessor ==
    [processingDelay |-> 2000, processingInterval |-> 1, timers |-> {1},
     wakeUps |-> 0, busyWakeUps |-> 0, running |-> <<>>]

InitServer ==
    /\ customers = InitCustomers
    /\ campaigns = <<>>
    /\ sentMessages = <<>>
    /\ commLogs = <<>>
    /\ ids = [campaign |-> 1, sent |-> 1, comm |-> 1, segment |-> 1]
    /\ now = 0
    /\ isProcessing = FALSE
    /\ drain = 0
    /\ cva = IdleCva
    /\ vendorReqs = {}
    /\ receiptReqs = {}
    /\ envReceiptUrl \in {None, ReceiptRoute}
    /\ deliveryTimers = {}
    /\ deliveryQueue = {}
    /\ receiptQueue = <<>>
    /\ processor = InitProcessor
    /\ posted = 0
    /\ redis = FALSE
    /\ ordersQueue = <<>>
    /\ orders = <<>>
    /\ ingest = [requests |-> 0, accepted |-> {}]

Init ==
    /\ InitServer
    /\ resp = [op |-> None, code |-> 0]
    /\ segments = InitSegments
    /\ cad = IdleCad
    /\ stats = IdleStats

\* time passes
Tick ==
    /\ now < MaxNow
    /\ now' = now + 1
    /\ UNCHANGED <<stores, ids, isProcessing, drain, cad, cva, vendorReqs, receiptReqs,
                   envReceiptUrl, orderStores, processor, simulators, stats, posted, resp>>

----------------------------------------------------------------------------
(* MessageQueueService: src/unnamed/part_015 *)

\* the two creates of addToQueue; f says which of them throws, if any
\*   "ok"    both documents are created
\*   "sent"  SentMessageModel.create throws: nothing is created
\*   "comm"  CommunicationLogModel.create throws: the sent message stays
QueueFaults == {"ok", "sent", "comm"}

NewSentMessage(userId, messageId, status, campaignId) ==
    [_id |-> ids.sent, userId |-> userId, messageId |-> messageId, status |-> status,
     campaignId |-> campaignId, errorMessage |-> None, createdAt |-> now]

NewCommLog(userId, messageId, status, campaignId, customerId) ==
    [_id |-> ids.comm, userId |-> userId, vendor_message_id |-> messageId, status |-> status,
     campaign_id |-> campaignId, customer_id |-> customerId, error_message |-> None]

addToQueue(message, f) ==
    /\ sentMessages' =
          IF f = "sent" THEN sentMessages
          ELSE Append(sentMessages,
                      NewSentMessage(message.userId, message.messageId, "QUEUED", NoCampaign))
    /\ commLogs' =
          IF f = "ok"
          THEN Append(commLogs,
                      NewCommLog(message.userId, message.messageId, "QUEUED", NoCampaign, None))
          ELSE commLogs
    /\ ids' = [ids EXCEPT !.sent = IF f = "sent" THEN @ ELSE @ + 1,
                          !.comm = IF f = "ok" THEN @ + 1 ELSE @]

\* the QUEUED sent messages findOne(...).sort({createdAt: 1}) can return: those of the
\* smallest createdAt (the order among equal timestamps is not specified)
OldestQueued_Any == { m \in Range(sentMessages) : m.status = "QUEUED" }

OldestQueued ==
    { m \in Range(sentMessages) :
        /\ m.status = "QUEUED"
        /\ \A o \in Range(sentMessages) : o.status = "QUEUED" => m.createdAt <= o.createdAt }

\* a timer wake-up that finds the flag clear: processQueue up to the simulated delay.
\* f = "find" : the findOne throws (caught; finally clears the flag)
DrainTick(f) ==
    /\ ~isProcessing
    /\ IF f = "find" \/ OldestQueued = {}
       THEN /\ isProcessing' = FALSE
            /\ drain' = 0
       ELSE /\ isProcessing' = TRUE
            /\ \E m \in OldestQueued : drain' = m._id
    /\ UNCHANGED <<stores, ids, now, cad, cva, vendorReqs, receiptReqs, envReceiptUrl, orderStores, processor, simulators, stats, posted, resp>>

\* the rest of processQueue after the delay: draw the outcome, write both documents.
\*   f = "ok"   both updates are applied
\*   f = "sent" SentMessageModel.findByIdAndUpdate throws: nothing is written
\*   f = "comm" CommunicationLogModel.findOneAndUpdate throws: only the sent message is written
DrainFinish(isSuccess, r, f) ==
    /\ isProcessing
    /\ drain # 0
    /\ LET queuedMessage == FindById(sentMessages, drain)
           finalStatus == IF isSuccess THEN "SENT" ELSE "FAILED"
           errorMessage == IF isSuccess THEN None ELSE failureReasons[r]
           \* keys whose value is undefined are left out of an update
           sentUpdate == IF isSuccess
                         THEN [status |-> finalStatus]
                         ELSE [status |-> finalStatus, errorMessage |-> errorMessage]
           commUpdate == IF isSuccess
                         THEN [status |-> finalStatus]
                         ELSE [status |-> finalStatus, error_message |-> errorMessage]
       IN  /\ sentMessages' =
                 IF f = "sent" THEN sentMessages
                 ELSE UpdateFirst(sentMessages, LAMBDA d : d._id = drain, sentUpdate)
           /\ commLogs' =
                 IF f = "ok"
                 THEN UpdateFirst(commLogs,
                                  LAMBDA d : d.vendor_message_id = queuedMessage.messageId,
                                  commUpdate)
                 ELSE commLogs
    /\ isProcessing' = FALSE
    /\ drain' = 0
    /\ UNCHANGED <<customers, segments, campaigns, ids, now, cad, cva, vendorReqs,
                   receiptReqs, envReceiptUrl, orderStores, processor, simulators, stats, posted, resp>>

----------------------------------------------------------------------------
(* createCampaign (src/unnamed/part_002) and                               *)
(* CampaignDeliveryService.createAndDeliverCampaign (src/unnamed/part_012) *)

\* getCustomersForSegment: the owner's customers that satisfy the segment's rules
getCustomersForSegment(segment) ==
    Find(customers,
         LAMBDA c : c.userId = segment.userId /\ evaluateRule(c, segment.rules_json))

CampaignMessageId(campaignId, customerId) == <<"campaign", campaignId, customerId, now>>

NewCampaign_OtherId(userId, segmentId) ==
    [_id |-> ids.campaign + 1, userId |-> userId, segment_id |-> segmentId,
     status |-> "ACTIVE"]

NewCampaign(userId, segmentId) ==
    [_id |-> ids.campaign, userId |-> userId, segment_id |-> segmentId, status |-> "ACTIVE"]

\* the request up to the creation of the campaign record; a request that ends here
\* leaves its response in cad.result.
\*   f = "campaign" : CampaignModel.create throws (500)
createCampaign(u, segment_id, message, f) ==
    /\ cad.pc # "loop"
    /\ LET templateValidation == validateTemplate(message)
           segment == FindOne(segments, LAMBDA d : d._id = segment_id /\ d.userId = u)
           matching == getCustomersForSegment(segment)
           request == [IdleCad EXCEPT !.pc = "done", !.message = message]
       IN  IF ~templateValidation.isValid
           THEN /\ cad' = [request EXCEPT !.result =
                              [code |-> 400,
                               invalidPlaceholders |-> templateValidation.invalidPlaceholders,
                               availablePlaceholders |-> getAvailablePlaceholders]]
                /\ UNCHANGED <<campaigns, ids>>
           ELSE IF ~Has(segments, LAMBDA d : d._id = segment_id /\ d.userId = u)
           THEN /\ cad' = [request EXCEPT !.result = [code |-> 404]]
                /\ UNCHANGED <<campaigns, ids>>
           ELSE IF matching = <<>>
           THEN /\ cad' = [request EXCEPT !.result =
                              [code |-> 201, campaignId |-> NoCampaign, totalCustomers |-> 0,
                               messagesQueued |-> 0, messagesSent |-> 0,
                               messagesFailed |-> 0, deliveryLogs |-> <<>>]]
                /\ UNCHANGED <<campaigns, ids>>
           ELSE IF f = "campaign"
           THEN /\ cad' = [request EXCEPT !.result = [code |-> 500]]
                /\ UNCHANGED <<campaigns, ids>>
           ELSE /\ Len(campaigns) < MaxCampaigns
                /\ campaigns' = Append(campaigns, NewCampaign(u, segment_id))
                /\ ids' = [ids EXCEPT !.campaign = @ + 1]
                /\ cad' = [request EXCEPT !.pc = "loop", !.userId = u,
                                          !.segmentId = segment_id,
                                          !.campaignId = ids.campaign,
                                          !.customers = Ids(matching), !.i = 1]
    /\ UNCHANGED <<customers, segments, sentMessages, commLogs, now, isProcessing, drain,
                   cva, vendorReqs, receiptReqs, envReceiptUrl, orderStores, processor, simulators, stats, posted, resp>>

\* where the loop goes on after the catch block of one customer: the next customer
\* (AfterCustomerFailure_Abort: a loop that gives up on the first failure)
AfterCustomerFailure_Abort(request) == Len(request.customers) + 1

AfterCustomerFailure(request) == request.i + 1

\* one iteration of the per-customer loop, and the response after the last one.
\*   f = "personalize" : personalization throws before anything is written
\*   f \in QueueFaults : the outcome of addToQueue
createAndDeliverCustomer(f) ==
    /\ cad.pc = "loop"
    /\ LET customerId == cad.customers[cad.i]
           messageId == CampaignMessageId(cad.campaignId, customerId)
           ok == f = "ok"
           log == [customerId |-> customerId, status |-> IF ok THEN "QUEUED" ELSE "FAILED",
                   messageId |-> messageId]
           next == IF ok THEN cad.i + 1 ELSE AfterCustomerFailure(cad)
           after == [cad EXCEPT !.i = next,
                                !.deliveryLogs = Append(@, log),
                                !.messagesQueued = IF ok THEN @ + 1 ELSE @,
                                !.messagesFailed = IF ok THEN @ ELSE @ + 1]
       IN  /\ IF f = "personalize"
              THEN UNCHANGED <<sentMessages, commLogs, ids>>
              ELSE addToQueue([userId |-> cad.userId, messageId |-> messageId], f)
           /\ IF next > Len(cad.customers)
              THEN cad' = [after EXCEPT !.pc = "done", !.result =
                              [code |-> 201, campaignId |-> cad.campaignId,
                               totalCustomers |-> Len(cad.customers),
                               messagesQueued |-> after.messagesQueued,
                               messagesSent |-> 0, messagesFailed |-> 0,
                               deliveryLogs |-> after.deliveryLogs]]
              ELSE cad' = after
    /\ UNCHANGED <<customers, segments, campaigns, now, isProcessing, drain, cva,
                   vendorReqs, receiptReqs, envReceiptUrl, orderStores, processor, simulators, stats, posted, resp>>

----------------------------------------------------------------------------
(* createCampaignWithVendorAPI: src/unnamed/part_002 *)

\* the request up to the creation of the campaign record; a request that ends here
\* leaves its response in cva.result.
\*   f = "campaign" : CampaignModel.create throws (500)
createCampaignWithVendorAPI(u, segment_id, message, f) ==
    /\ cva.pc # "loop"
    /\ LET templateValidation == validateTemplate(message)
           segment == FindOne(segments, LAMBDA d : d._id = segment_id /\ d.userId = u)
           matchingCustomers ==
               Find(customers,
                    LAMBDA c : c.userId = u /\ evaluateRule(c, segment.rules_json))
           request == [IdleCva EXCEPT !.pc = "done"]
       IN  IF ~templateValidation.isValid
           THEN /\ cva' = [request EXCEPT !.result =
                              [code |-> 400,
                               invalidPlaceholders |-> templateValidation.invalidPlaceholders,
                               availablePlaceholders |-> getAvailablePlaceholders]]
                /\ UNCHANGED <<campaigns, ids>>
           ELSE IF ~Has(segments, LAMBDA d : d._id = segment_id /\ d.userId = u)
           THEN /\ cva' = [request EXCEPT !.result = [code |-> 404]]
                /\ UNCHANGED <<campaigns, ids>>
           ELSE IF matchingCustomers = <<>>
           THEN /\ cva' = [request EXCEPT !.result =
                              [code |-> 400,
                               error |-> "No customers found matching segment rules"]]
                /\ UNCHANGED <<campaigns, ids>>
           ELSE IF f = "campaign"
           THEN /\ cva' = [request EXCEPT !.result = [code |-> 500]]
                /\ UNCHANGED <<campaigns, ids>>
           ELSE /\ Len(campaigns) < MaxCampaigns
                /\ campaigns' = Append(campaigns, NewCampaign(u, segment_id))
                /\ ids' = [ids EXCEPT !.campaign = @ + 1]
                /\ cva' = [request EXCEPT !.pc = "loop", !.userId = u,
                                          !.campaignId = ids.campaign,
                                          !.customers = Ids(matchingCustomers), !.i = 1]
    /\ UNCHANGED <<customers, segments, sentMessages, commLogs, now, isProcessing, drain,
                   cad, vendorReqs, receiptReqs, envReceiptUrl, orderStores, processor, simulators, stats, posted, resp>>

\* one iteration of the loop: PENDING communication log, PENDING sent message, then the
\* vendor API is called without awaiting it; the response after the last iteration.
\*   f = "comm" : CommunicationLogModel.create throws: the request ends with 500
\*   f = "sent" : SentMessageModel.create throws after the log was created: 500
vendorAPICustomer(f) ==
    /\ cva.pc = "loop"
    /\ LET customerId == cva.customers[cva.i]
           messageId == CampaignMessageId(cva.campaignId, customerId)
       IN  /\ commLogs' =
                 IF f = "comm" THEN commLogs
                 ELSE Append(commLogs, NewCommLog(cva.userId, messageId, "PENDING",
                                                  cva.campaignId, customerId))
           /\ sentMessages' =
                 IF f = "ok"
                 THEN Append(sentMessages, NewSentMessage(cva.userId, messageId, "PENDING",
                                                          cva.campaignId))
                 ELSE sentMessages
           /\ ids' = [ids EXCEPT !.comm = IF f = "comm" THEN @ ELSE @ + 1,
                                 !.sent = IF f = "ok" THEN @ + 1 ELSE @]
           /\ vendorReqs' =
                 IF f = "ok"
                 THEN vendorReqs \cup {[customerId |-> customerId,
                                        campaignId |-> cva.campaignId,
                                        messageId |-> messageId]}
                 ELSE vendorReqs
           /\ IF f # "ok"
              THEN cva' = [cva EXCEPT !.pc = "done", !.result = [code |-> 500]]
              ELSE IF cva.i = Len(cva.customers)
              THEN cva' = [cva EXCEPT !.pc = "done", !.i = @ + 1,
                                      !.communicationLogs = @ + 1,
                                      !.result = [code |-> 200,
                                                  campaignId |-> cva.campaignId,
                                                  totalCustomers |-> Len(cva.customers),
                                                  messagesQueued |-> cva.communicationLogs + 1]]
              ELSE cva' = [cva EXCEPT !.i = @ + 1, !.communicationLogs = @ + 1]
    /\ UNCHANGED <<customers, segments, campaigns, now, isProcessing, drain, cad,
                   receiptReqs, envReceiptUrl, orderStores, processor, simulators, stats, posted, resp>>

----------------------------------------------------------------------------
(* The dummy vendor API: src/src/routes/vendor.ts *)

deliveryReceiptUrl == IF envReceiptUrl # None THEN envReceiptUrl ELSE DefaultReceiptUrl

\* POST /api/vendor/send for a request of createCampaignWithVendorAPI: the outcome is
\* drawn and posted to the delivery receipt URL; a failed POST (no such route) is
\* logged and dropped.
vendorSend(req, isSuccess, r) ==
    /\ req \in vendorReqs
    /\ vendorReqs' = vendorReqs \ {req}
    /\ LET status == IF isSuccess THEN "SENT" ELSE "FAILED"
           errorMessage == IF isSuccess THEN None ELSE failureReasons[r]
       IN  receiptReqs' =
              IF deliveryReceiptUrl = ReceiptRoute
              THEN receiptReqs \cup {[messageId |-> req.messageId, status |-> status,
                                      deliveredAt |-> now, errorMessage |-> errorMessage]}
              ELSE receiptReqs
    /\ UNCHANGED <<stores, ids, now, isProcessing, drain, cad, cva, envReceiptUrl, orderStores, processor, simulators, stats, posted, resp>>

----------------------------------------------------------------------------
(* The delivery receipt endpoint: src/src/controllers/deliveryReceipt.ts *)

\* handleDeliveryReceipt on the request body.
\*   f = "comm" : CommunicationLogModel.findByIdAndUpdate throws: 500, nothing written
\*   f = "sent" : SentMessageModel.findOneAndUpdate throws: 500, the log is written
ReceiptFaults == {"ok", "comm", "sent"}

handleDeliveryReceipt(body, f) ==
    LET communicationLog ==
            FindOne(commLogs, LAMBDA d : d.vendor_message_id = body.messageId)
        updateData ==
            IF body.status = "FAILED" /\ body.errorMessage # None
            THEN [status |-> body.status, error_message |-> body.errorMessage]
            ELSE [status |-> body.status]
        sentMessageUpdateData ==
            IF body.status = "FAILED" /\ body.errorMessage # None
            THEN [status |-> body.status, errorMessage |-> body.errorMessage]
            ELSE [status |-> body.status]
    IN  IF body.messageId = NoMessageId \/ body.status = None \/ body.deliveredAt = NoDate
        THEN /\ resp' = [op |-> "handleDeliveryReceipt", code |-> 400]
             /\ UNCHANGED <<commLogs, sentMessages>>
        ELSE IF body.status \notin {"SENT", "FAILED"}
        THEN /\ resp' = [op |-> "handleDeliveryReceipt", code |-> 400]
             /\ UNCHANGED <<commLogs, sentMessages>>
        ELSE IF ~Has(commLogs, LAMBDA d : d.vendor_message_id = body.messageId)
        THEN /\ resp' = [op |-> "handleDeliveryReceipt", code |-> 404]
             /\ UNCHANGED <<commLogs, sentMessages>>
        ELSE IF f = "comm"
        THEN /\ resp' = [op |-> "handleDeliveryReceipt", code |-> 500]
             /\ UNCHANGED <<commLogs, sentMessages>>
        ELSE /\ commLogs' = UpdateFirst(commLogs, LAMBDA d : d._id = communicationLog._id,
                                        updateData)
             /\ IF f = "sent"
                THEN /\ resp' = [op |-> "handleDeliveryReceipt", code |-> 500]
                     /\ UNCHANGED sentMessages
                ELSE /\ sentMessages' =
                           UpdateFirst(sentMessages,
                                       LAMBDA d : d.messageId = body.messageId,
                                       sentMessageUpdateData)
                     /\ resp' = [op |-> "handleDeliveryReceipt", code |-> 200]

\* the receipt the vendor route posted arrives
vendorReceipt(body, f) ==
    /\ body \in receiptReqs
    /\ receiptReqs' = receiptReqs \ {body}
    /\ handleDeliveryReceipt(body, f)
    /\ UNCHANGED <<customers, segments, campaigns, ids, now, isProcessing, drain, cad, cva,
                   vendorReqs, envReceiptUrl, orderStores, processor, simulators, stats, posted>>

\* message ids a caller of the (unauthenticated) receipt endpoint may name
KnownMessageIds ==
    {d.vendor_message_id : d \in Range(commLogs)} \cup {d.messageId : d \in Range(sentMessages)}

UnknownMessageId == <<"campaign", 9, "c9", 0>>

ReceiptBodies ==
    [messageId : KnownMessageIds \cup {NoMessageId, UnknownMessageId},
     status : {"SENT", "FAILED", "DELIVERED"},
     deliveredAt : {now},
     errorMessage : {None, failureReasons[1]}]

\* POST /api/delivery/receipt by any other caller
postReceipt(body, f) ==
    /\ posted < MaxPosted
    /\ posted' = posted + 1
    /\ handleDeliveryReceipt(body, f)
    /\ UNCHANGED <<customers, segments, campaigns, ids, now, isProcessing, drain, cad, cva,
                   vendorReqs, receiptReqs, envReceiptUrl, orderStores, processor, simulators, stats>>

----------------------------------------------------------------------------
(* Campaign update / delete: src/unnamed/part_002 *)

\* bodies of PUT /api/campaigns/:id (campaignUpdateSchema: at least one field)
CampaignUpdateBodies ==
    { b \in [segment_id : SegmentIds \cup {MissingId, None},
             status : {"PAUSED", None}] : b.segment_id # None \/ b.status # None }

updateCampaign(u, campaignId, body) ==
    /\ posted < MaxCrud
    /\ posted' = posted + 1
    /\ IF ~Has(campaigns, LAMBDA d : d._id = campaignId)
       THEN /\ resp' = [op |-> "updateCampaign", code |-> 404]
            /\ UNCHANGED campaigns
       ELSE IF body.segment_id # None /\ ~Has(segments, LAMBDA d : d._id = body.segment_id)
       THEN /\ resp' = [op |-> "updateCampaign", code |-> 404]
            /\ UNCHANGED campaigns
       ELSE LET updateData ==
                    IF body.segment_id # None /\ body.status # None
                    THEN [segment_id |-> body.segment_id, status |-> body.status]
                    ELSE IF body.segment_id # None
                    THEN [segment_id |-> body.segment_id]
                    ELSE [status |-> body.status]
            IN  /\ campaigns' = UpdateFirst(campaigns,
                                            LAMBDA d : d._id = campaignId /\ d.userId = u,
                                            updateData)
                /\ resp' = [op |-> "updateCampaign", code |-> 200,
                            message |-> "Campaign updated successfully"]
    /\ UNCHANGED <<customers, segments, sentMessages, commLogs, ids, now, isProcessing,
                   drain, cad, cva, vendorReqs, receiptReqs, envReceiptUrl, orderStores, processor, simulators, stats>>

deleteCampaign(u, campaignId) ==
    /\ posted < MaxCrud
    /\ posted' = posted + 1
    /\ IF ~Has(campaigns, LAMBDA d : d._id = campaignId /\ d.userId = u)
       THEN /\ resp' = [op |-> "deleteCampaign", code |-> 404]
            /\ UNCHANGED <<campaigns, commLogs>>
       ELSE /\ commLogs' = Find(commLogs,
                                LAMBDA d : ~(d.campaign_id = campaignId /\ d.userId = u))
            /\ campaigns' = Find(campaigns, LAMBDA d : ~(d._id = campaignId /\ d.userId = u))
            /\ resp' = [op |-> "deleteCampaign", code |-> 200]
    /\ UNCHANGED <<customers, segments, sentMessages, ids, now, isProcessing, drain, cad,
                   cva, vendorReqs, receiptReqs, envReceiptUrl, orderStores, processor, simulators, stats>>

----------------------------------------------------------------------------
(* Segments: src/unnamed/part_004 (controller), src/unnamed/part_016 (population) *)

\* populateSegmentCustomers that takes the customers of every owner
populateSegmentCustomers_AnyOwner(segs, segmentId) ==
    LET segment == FindById(segs, segmentId)
        matchingCustomers ==
            SelectSeq(customers, LAMBDA c : evaluateRule(c, segment.rules_json))
        customerIds == Ids(matchingCustomers)
    IN  [i \in DOMAIN segs |->
            IF segs[i]._id = segmentId
            THEN [segs[i] EXCEPT !.customer_ids = customerIds,
                                 !.customer_count = Len(customerIds),
                                 !.last_populated_at = now]
            ELSE segs[i]]

\* the segments collection after populateSegmentCustomers(segmentId)
populateSegmentCustomers(segs, segmentId) ==
    LET segment == FindById(segs, segmentId)
        matchingCustomers ==
            Find(customers,
                 LAMBDA c : c.userId = segment.userId /\ evaluateRule(c, segment.rules_json))
        customerIds == Ids(matchingCustomers)
    IN  UpdateFirst(segs, LAMBDA d : d._id = segmentId,
                    [customer_ids |-> customerIds, customer_count |-> Len(customerIds),
                     last_populated_at |-> now])

\* rule trees the segment requests draw from
RuleInputs ==
    { [and |-> << [field |-> "spend", op |-> ">", value |-> 1000] >>],
      [or |-> << [field |-> "visits", op |-> ">=", value |-> 3] >>] }

fixRuleStructure(rules) ==
    LET fixLeaf(rule) ==
            [field |-> IF "field" \in DOMAIN rule THEN rule.field ELSE None,
             op |-> IF "operator" \in DOMAIN rule THEN rule.operator
                    ELSE IF "op" \in DOMAIN rule THEN rule.op ELSE None,
             value |-> IF "value" \in DOMAIN rule THEN rule.value ELSE 0]
    IN  IF "and" \in DOMAIN rules
        THEN [and |-> [i \in DOMAIN rules.and |-> fixLeaf(rules.and[i])],
              or |-> IF "or" \in DOMAIN rules THEN rules.or ELSE <<>>]
        ELSE IF "or" \in DOMAIN rules
        THEN [and |-> <<>>,
              or |-> [i \in DOMAIN rules.or |-> fixLeaf(rules.or[i])]]
        ELSE IF "field" \in DOMAIN rules
        THEN fixLeaf(rules)
        ELSE rules

getSegment(u, id) ==
    /\ posted < MaxCrud
    /\ posted' = posted + 1
    /\ IF ~Has(segments, LAMBDA d : d._id = id /\ d.userId = u)
       THEN resp' = [op |-> "getSegment", code |-> 404]
       ELSE resp' = [op |-> "getSegment", code |-> 200,
                     segment |-> FindOne(segments, LAMBDA d : d._id = id /\ d.userId = u)]
    /\ UNCHANGED <<stores, ids, now, isProcessing, drain, cad, cva, vendorReqs, receiptReqs,
                   envReceiptUrl, orderStores, processor, simulators, stats>>

\* PUT /api/segments/:id with a body that carries rules_json
updateSegment(u, id, rules_json) ==
    /\ posted < MaxCrud
    /\ posted' = posted + 1
    /\ IF ~Has(segments, LAMBDA d : d._id = id /\ d.userId = u)
       THEN /\ resp' = [op |-> "updateSegment", code |-> 404]
            /\ UNCHANGED segments
       ELSE LET updated == UpdateFirst(segments, LAMBDA d : d._id = id /\ d.userId = u,
                                       [rules_json |-> fixRuleStructure(rules_json)])
            IN  /\ segments' = populateSegmentCustomers(updated, id)
                /\ resp' = [op |-> "updateSegment", code |-> 200,
                            segment |-> FindById(segments', id)]
    /\ UNCHANGED <<customers, campaigns, sentMessages, commLogs, ids, now, isProcessing,
                   drain, cad, cva, vendorReqs, receiptReqs, envReceiptUrl, orderStores, processor, simulators, stats>>

\* bodies of PUT /api/segments/:id without rules_json; the route validates nothing
SegmentFieldBodies ==
    { [name |-> "renamed"], [customer_count |-> 5], [customer_ids |-> <<"c3">>],
      [userId |-> "u2"], [customer_ids |-> <<>>, customer_count |-> 0] }

\* PUT /api/segments/:id with a body that carries no rules_json: findOneAndUpdate writes
\* the fields of the body the schema knows, and nothing is populated again
updateSegmentFields(u, id, body) ==
    /\ posted < MaxCrud
    /\ posted' = posted + 1
    /\ IF ~Has(segments, LAMBDA d : d._id = id /\ d.userId = u)
       THEN /\ resp' = [op |-> "updateSegmentFields", code |-> 404, id |-> id]
            /\ UNCHANGED segments
       ELSE /\ segments' = UpdateFirst(segments, LAMBDA d : d._id = id /\ d.userId = u, body)
            /\ resp' = [op |-> "updateSegmentFields", code |-> 200, id |-> id]
    /\ UNCHANGED <<customers, campaigns, sentMessages, commLogs, ids, now, isProcessing,
                   drain, cad, cva, vendorReqs, receiptReqs, envReceiptUrl, orderStores,
                   processor, simulators, stats>>

deleteSegment(u, id) ==
    /\ posted < MaxCrud
    /\ posted' = posted + 1
    /\ IF ~Has(segments, LAMBDA d : d._id = id /\ d.userId = u)
       THEN /\ resp' = [op |-> "deleteSegment", code |-> 404]
            /\ UNCHANGED segments
       ELSE /\ segments' = Find(segments, LAMBDA d : ~(d._id = id /\ d.userId = u))
            /\ resp' = [op |-> "deleteSegment", code |-> 200, id |-> id]
    /\ UNCHANGED <<customers, campaigns, sentMessages, commLogs, ids, now, isProcessing,
                   drain, cad, cva, vendorReqs, receiptReqs, envReceiptUrl, orderStores, processor, simulators, stats>>

\* ids of the segments created after start-up, in the order of their creation
NewSegmentIds == <<"s4", "s5", "s6">>

\* POST /api/segments: the rules are fixed, the segment is created and populated
createSegment(u, rules_json) ==
    /\ posted < MaxCrud
    /\ posted' = posted + 1
    /\ ids.segment <= MaxNewSegments
    /\ ids.segment <= Len(NewSegmentIds)
    /\ LET id == NewSegmentIds[ids.segment]
           seg == [_id |-> id, userId |-> u, rules_json |-> fixRuleStructure(rules_json),
                   customer_ids |-> <<>>, customer_count |-> 0,
                   last_populated_at |-> NoDate]
       IN  /\ segments' = populateSegmentCustomers(Append(segments, seg), id)
           /\ resp' = [op |-> "createSegment", code |-> 201, id |-> id,
                       customer_count |-> FindById(segments', id).customer_count]
    /\ ids' = [ids EXCEPT !.segment = @ + 1]
    /\ UNCHANGED <<customers, campaigns, sentMessages, commLogs, now, isProcessing,
                   drain, cad, cva, vendorReqs, receiptReqs, envReceiptUrl, orderStores, processor, simulators, stats>>

\* 5 * 60 * 1000 ms in ticks of the clock (a tick is longer than five minutes)
RefreshAge == 0

\* GET /api/segments: the caller's segments, each repopulated first when its count is
\* 0, it was never populated or its population is older than five minutes
listSegments(u) ==
    /\ posted < MaxCrud
    /\ posted' = posted + 1
    /\ LET stale(seg) == \/ seg.customer_count = 0
                         \/ seg.last_populated_at = NoDate
                         \/ now - seg.last_populated_at > RefreshAge
           refreshed(seg) == FindById(populateSegmentCustomers(segments, seg._id), seg._id)
       IN  /\ segments' = [i \in DOMAIN segments |->
                              IF segments[i].userId = u /\ stale(segments[i])
                              THEN refreshed(segments[i])
                              ELSE segments[i]]
           /\ resp' = [op |-> "listSegments", code |-> 200,
                       items |-> SelectSeq(segments', LAMBDA d : d.userId = u)]
    /\ UNCHANGED <<customers, campaigns, sentMessages, commLogs, ids, now, isProcessing,
                   drain, cad, cva, vendorReqs, receiptReqs, envReceiptUrl, orderStores, processor, simulators, stats>>

\* GET /api/segments/:id/customers without limit and offset: the segment is looked up
\* by id alone, repopulated when its list is empty or it was never populated, and the
\* customers of its list are read with the segment owner's id; a missing segment makes
\* the service throw (500)
getSegmentCustomers(u, id) ==
    /\ posted < MaxCrud
    /\ posted' = posted + 1
    /\ IF ~(\E d \in Range(segments) : d._id = id)
       THEN /\ resp' = [op |-> "getSegmentCustomers", code |-> 500]
            /\ UNCHANGED segments
       ELSE LET segment == FindById(segments, id)
                stale == segment.customer_ids = <<>> \/ segment.last_populated_at = NoDate
                segs == IF stale THEN populateSegmentCustomers(segments, id) ELSE segments
                customerIds == FindById(segs, id).customer_ids
                found == SelectSeq(customers,
                                   LAMBDA c : c._id \in Range(customerIds)
                                                 /\ c.userId = segment.userId)
            IN  /\ segments' = segs
                /\ resp' = [op |-> "getSegmentCustomers", code |-> 200,
                            customers |-> found,
                            total |-> FindById(segs, id).customer_count]
    /\ UNCHANGED <<customers, campaigns, sentMessages, commLogs, ids, now, isProcessing,
                   drain, cad, cva, vendorReqs, receiptReqs, envReceiptUrl, orderStores, processor, simulators, stats>>

----------------------------------------------------------------------------
(* Campaign statistics: src/unnamed/part_001 *)

AnyStatus == Terminal \cup NonTerminal

\* CommunicationLogModel.countDocuments({campaign_id, userId, status in statuses})
countDocuments(campaign_id, userId, statuses) ==
    Len(SelectSeq(commLogs,
                  LAMBDA d : /\ d.campaign_id = campaign_id
                             /\ d.userId = userId
                             /\ d.status \in statuses))

\* Math.round(n / total * 100 * 100) / 100 in hundredths of a percent, 0 when total is 0
\* (Math.round rounds a half up)
Rate(n, total) ==
    IF total > 0 THEN (2 * n * 10000 + total) \div (2 * total) ELSE 0

\* getCampaignStats up to its first count: the total. campaignId is
\* req.params.campaignId, NoCampaign when the route did not set it (400).
getCampaignStats(u, campaignId) ==
    /\ stats.pc \in {"idle", "done"}
    /\ IF campaignId = NoCampaign
       THEN stats' = [IdleStats EXCEPT !.pc = "done", !.result = [code |-> 400]]
       ELSE stats' = [IdleStats EXCEPT !.pc = "sent", !.userId = u,
                                       !.campaignId = campaignId,
                                       !.total = countDocuments(campaignId, u, AnyStatus)]
    /\ UNCHANGED <<stores, ids, now, isProcessing, drain, cad, cva, vendorReqs, receiptReqs,
                   envReceiptUrl, orderStores, processor, simulators, posted, resp>>

\* the next count of the request (sent, failed, pending, queued, each its own query);
\* after the last one the rates are derived and the response is sent
getCampaignStatsCount ==
    /\ stats.pc \in {"sent", "failed", "pending", "queued"}
    /\ LET count(status) == countDocuments(stats.campaignId, stats.userId, {status})
           queued == count("QUEUED")
       IN  stats' =
              CASE stats.pc = "sent" ->
                      [stats EXCEPT !.pc = "failed", !.sent = count("SENT")]
                [] stats.pc = "failed" ->
                      [stats EXCEPT !.pc = "pending", !.failed = count("FAILED")]
                [] stats.pc = "pending" ->
                      [stats EXCEPT !.pc = "queued", !.pending = count("PENDING")]
                [] stats.pc = "queued" ->
                      [stats EXCEPT !.pc = "done", !.result =
                          [code |-> 200, total |-> stats.total, sent |-> stats.sent,
                           failed |-> stats.failed, pending |-> stats.pending,
                           queued |-> queued,
                           deliveryRate |-> Rate(stats.sent + stats.failed, stats.total),
                           successRate |-> Rate(stats.sent, stats.total),
                           failureRate |-> Rate(stats.failed, stats.total)]]
    /\ UNCHANGED <<stores, ids, now, isProcessing, drain, cad, cva, vendorReqs, receiptReqs,
                   envReceiptUrl, orderStores, processor, simulators, posted, resp>>

----------------------------------------------------------------------------
(* Specifications *)

CampaignFaults == {"ok", "campaign"}

\* POST /api/campaigns and its delivery loop
CampaignRequests ==
    \/ \E u \in Users, s \in SegmentIds \cup {MissingId}, m \in Templates,
          f \in CampaignFaults : createCampaign(u, s, m, f)
    \/ \E f \in QueueFaults \cup {"personalize"} : createAndDeliverCustomer(f)

\* the timer of the message queue
QueueProcessor ==
    \/ \E f \in {"ok", "find"} : DrainTick(f)
    \/ \E isSuccess \in BOOLEAN, r \in ReasonIdx, f \in QueueFaults :
          DrainFinish(isSuccess, r, f)

\* POST /api/campaigns/vendor-api, the vendor API it calls and the receipts of the vendor
VendorFlow ==
    \/ \E u \in Users, s \in SegmentIds \cup {MissingId}, m \in Templates,
          f \in CampaignFaults : createCampaignWithVendorAPI(u, s, m, f)
    \/ \E f \in {"ok", "comm", "sent"} : vendorAPICustomer(f)
    \/ \E req \in vendorReqs, isSuccess \in BOOLEAN, r \in ReasonIdx :
          vendorSend(req, isSuccess, r)
    \/ \E body \in receiptReqs, f \in ReceiptFaults : vendorReceipt(body, f)

\* the queue pipeline: campaigns enqueue, the timer drains, receipts may be posted
Next ==
    \/ Tick
    \/ CampaignRequests
    \/ QueueProcessor
    \/ \E body \in ReceiptBodies, f \in ReceiptFaults : postReceipt(body, f)

Spec == Init /\ [][Next]_vars

\* the campaign requests alone
RequestNext ==
    \/ Tick
    \/ CampaignRequests

RequestSpec == Init /\ [][RequestNext]_vars

\* the vendor pipeline: campaigns create PENDING records, the vendor reports back
VendorNext ==
    \/ Tick
    \/ VendorFlow
    \/ \E body \in ReceiptBodies, f \in ReceiptFaults : postReceipt(body, f)

VendorSpec == Init /\ [][VendorNext]_vars

\* one POST /api/campaigns request whose message is any template: the request has been
\* received (cad.message) and is handled by any caller for any segment
ValidateInit ==
    /\ InitServer
    /\ resp = [op |-> None, code |-> 0]
    /\ segments = InitSegments
    /\ stats = IdleStats
    /\ \E m \in AllTemplates : cad = [IdleCad EXCEPT !.pc = "received", !.message = m]

ValidateNext ==
    \/ \E u \in Users, s \in SegmentIds \cup {MissingId}, f \in CampaignFaults :
          cad.pc = "received" /\ createCampaign(u, s, cad.message, f)
    \/ \E f \in QueueFaults \cup {"personalize"} : createAndDeliverCustomer(f)

ValidateSpec == ValidateInit /\ [][ValidateNext]_vars

\* ids a campaign request may name: those campaigns get, and one no campaign has
CampaignIds == 1..(MaxCampaigns + 1)

\* the vendor pipeline next to statistics requests
StatsNext ==
    \/ VendorFlow
    \/ \E u \in Users, id \in CampaignIds \cup {NoCampaign} : getCampaignStats(u, id)
    \/ getCampaignStatsCount

StatsSpec == Init /\ [][StatsNext]_vars

\* a statistics request that has read any total, sent and failed counts with
\* sent + failed <= total (the rest pending) and goes on to its last count and response
RateInit ==
    /\ InitServer
    /\ resp = [op |-> None, code |-> 0]
    /\ segments = InitSegments
    /\ cad = IdleCad
    /\ \E t \in 0..MaxTotal : \E sn \in 0..t : \E fl \in 0..(t - sn) :
          stats = [IdleStats EXCEPT !.pc = "queued", !.userId = "u1", !.campaignId = 1,
                                    !.total = t, !.sent = sn, !.failed = fl,
                                    !.pending = t - sn - fl]

RateNext == getCampaignStatsCount

RateSpec == RateInit /\ [][RateNext]_vars

\* leaves: well-formed ones, one with an operator compare does not know, one with a
\* field customers do not have
RuleLeaves ==
    { [field |-> "spend", op |-> ">", value |-> 1000],
      [field |-> "visits", op |-> "<=", value |-> 1],
      [field |-> "inactive_days", op |-> ">", value |-> 0],
      [field |-> "spend", op |-> "contains", value |-> 1000],
      [field |-> "age", op |-> ">", value |-> 18] }

\* entries of a rule list: leaves, nested groups, a node with neither field nor and/or
\* (the empty object), null
RuleEntries ==
    RuleLeaves \cup { [and |-> <<>>],
                      [or |-> << [field |-> "spend", op |-> ">", value |-> 1000] >>],
                      <<>>, Null }

RuleLists == UNION { [1..n -> RuleEntries] : n \in 0..MaxRuleLen }

\* the nodes evaluateRule is called on
RuleNodes ==
    (RuleEntries \ {Null})
       \cup { [and |-> l] : l \in RuleLists }
       \cup { [or |-> l] : l \in RuleLists }
       \cup { [and |-> a, or |-> l] : a \in {<<>>}, l \in RuleLists }

\* a call evaluateRule(customer, rule) about to be made, for any customer and node
EvalInit ==
    /\ InitServer
    /\ segments = InitSegments
    /\ cad = IdleCad
    /\ stats = IdleStats
    /\ \E c \in Range(InitCustomers), r \in RuleNodes :
          resp = [op |-> "evaluateRule", code |-> 0, customer |-> c, rule |-> r,
                  outcome |-> None]

\* the call is made
evaluateRuleCall ==
    /\ resp.op = "evaluateRule"
    /\ resp.outcome = None
    /\ resp' = [resp EXCEPT !.outcome = evaluateRuleOutcome(resp.customer, resp.rule)]
    /\ UNCHANGED <<stores, ids, now, isProcessing, drain, cad, cva, vendorReqs, receiptReqs,
                   envReceiptUrl, orderStores, processor, simulators, stats, posted>>

EvalNext ==
    \/ Tick
    \/ evaluateRuleCall

EvalSpec == EvalInit /\ [][EvalNext]_vars

\* ---- MessagePersonalizationService.personalizeMessage ----
\* A text is a sequence of atoms: a word, a blank, a comma, a digit, or a placeholder
\* with its braces ("{name}"); the replace calls of the service match exactly the
\* placeholder texts, so a placeholder is one atom here.
MaxMsgLen == 3

Digits == <<"0", "1", "2", "3", "4", "5", "6", "7", "8", "9">>

RECURSIVE toString(_)
toString(n) ==
    IF n < 10 THEN <<Digits[n + 1]>>
    ELSE toString(n \div 10) \o <<Digits[(n % 10) + 1]>>

\* the locale's rendering of a date: a text that depends on the date
toLocaleDateString(d) == toString(d) \o <<"/">>

toLowerCase(a) ==
    CASE a = "Hi" -> "hi"
      [] a = "HELLO" -> "hello"
      [] a = "Dear" -> "dear"
      [] OTHER -> a

\* s.toLowerCase().startsWith(word + ' ')
startsWith(s, word) ==
    /\ Len(s) >= 2
    /\ toLowerCase(s[1]) = word
    /\ s[2] = " "

\* a || b on texts: the empty text and an absent one are both falsy
OrElse(a, b) == IF a = <<>> THEN b ELSE a

FallbackName == <<"Valued", " ", "Customer">>

personalizationData(customer, fallbackName, customData) ==
    [ customerName   |-> OrElse(customer.name, fallbackName),
      customerEmail  |-> customer.email,
      customerPhone  |-> customer.phone,
      customerSpend  |-> customer.spend,
      customerVisits |-> customer.visits,
      lastActive     |-> IF customer.last_active = NoDate THEN <<"Never">>
                         ELSE toLocaleDateString(customer.last_active),
      discount       |-> OrElse(customData.discount, <<"1", "0">>),
      storeName      |-> OrElse(customData.storeName, <<"Our", " ", "Store">>),
      couponCode     |-> OrElse(customData.couponCode, <<"WELCOME10">>) ]

\* s.replace(/placeholder/g, value): every occurrence, the inserted text not rescanned
RECURSIVE replace(_, _, _)
replace(s, placeholder, value) ==
    IF s = <<>> THEN <<>>
    ELSE (IF Head(s) = placeholder THEN value ELSE <<Head(s)>>)
         \o replace(Tail(s), placeholder, value)

\* the replace calls of personalizeMessage, in the order the code makes them
Replacements(data) ==
    << <<"{customerName}",   data.customerName>>,
       <<"{customerEmail}",  data.customerEmail>>,
       <<"{customerPhone}",  OrElse(data.customerPhone, <<"N/A">>)>>,
       <<"{customerSpend}",  toString(data.customerSpend)>>,
       <<"{customerVisits}", toString(data.customerVisits)>>,
       <<"{lastActive}",     OrElse(data.lastActive, <<"Never">>)>>,
       <<"{name}",           data.customerName>>,
       <<"{Name}",           data.customerName>>,
       <<"{email}",          data.customerEmail>>,
       <<"{phone}",          OrElse(data.customerPhone, <<"N/A">>)>>,
       <<"{discount}",       OrElse(data.discount, <<"1", "0">>)>>,
       <<"{storeName}",      OrElse(data.storeName, <<"Our", " ", "Store">>)>>,
       <<"{couponCode}",     OrElse(data.couponCode, <<"WELCOME10">>)>> >>

RECURSIVE replaceAll(_, _, _)
replaceAll(s, reps, i) ==
    IF i > Len(reps) THEN s
    ELSE replaceAll(replace(s, reps[i][1], reps[i][2]), reps, i + 1)

substitutePlaceholders(message, data) == replaceAll(message, Replacements(data), 1)

startsWithGreeting(s) ==
    \/ startsWith(s, "hi")
    \/ startsWith(s, "hello")
    \/ startsWith(s, "dear")

personalizeMessage(message, customer, fallbackName, customData) ==
    LET data == personalizationData(customer, fallbackName, customData)
        substituted == substitutePlaceholders(message, data)
    IN  [ originalMessage |-> message,
          personalizedMessage |->
              IF ~startsWithGreeting(substituted)
              THEN <<"Hi", " ">> \o data.customerName \o <<",", " ">> \o substituted
              ELSE substituted,
          personalizationData |-> data ]

\* the inputs of the calls: templates, customers and the customData of the request
MessageAtoms == {"Hi", "dear", " ", "sale", "{customerName}", "{storeName}", "{customerSpend}"}

MessageTemplates ==
    UNION { [1..n -> MessageAtoms] : n \in 1..MaxMsgLen }

PersonalizeCustomers ==
    { [name |-> <<"Bob">>, email |-> <<"bob@x.io">>, phone |-> <<>>, spend |-> 500,
       visits |-> 1, last_active |-> NoDate],
      [name |-> <<>>, email |-> <<"ann@x.io">>, phone |-> <<"555">>, spend |-> 0,
       visits |-> 0, last_active |-> 0],
      [name |-> <<"Dear", " ", "Ann">>, email |-> <<"ann@x.io">>, phone |-> <<>>,
       spend |-> 1500, visits |-> 3, last_active |-> 0] }

CustomDatas ==
    { [discount |-> <<>>, storeName |-> <<>>, couponCode |-> <<>>],
      [discount |-> <<"2", "0">>, storeName |-> <<"HELLO", " ", "Fresh">>,
       couponCode |-> <<>>] }

PersonalizeInit ==
    /\ InitServer
    /\ segments = InitSegments
    /\ cad = IdleCad
    /\ stats = IdleStats
    /\ \E m \in MessageTemplates, c \in PersonalizeCustomers, d \in CustomDatas :
          resp = [op |-> "personalizeMessage", code |-> 0, message |-> m, customer |-> c,
                  customData |-> d, done |-> FALSE, personalizedMessage |-> <<>>]

\* the call personalizeMessage(message, customer, 'Valued Customer', customData)
personalizeMessageCall ==
    /\ resp.op = "personalizeMessage"
    /\ ~resp.done
    /\ resp' = [resp EXCEPT
                  !.done = TRUE,
                  !.personalizedMessage =
                      personalizeMessage(resp.message, resp.customer, FallbackName,
                                         resp.customData).personalizedMessage]
    /\ UNCHANGED <<stores, ids, now, isProcessing, drain, cad, cva, vendorReqs, receiptReqs,
                   envReceiptUrl, orderStores, processor, simulators, stats, posted>>

PersonalizeNext ==
    \/ Tick
    \/ personalizeMessageCall

PersonalizeSpec == PersonalizeInit /\ [][PersonalizeNext]_vars

----------------------------------------------------------------------------
(* The delivery simulators: VendorApiService (src/src/services/vendorApiService.ts), *)
(* one receipt per message after a delay, and VendorService                          *)
(* (src/src/services/vendorService.ts), receipts flushed in batches.                 *)

vendorApiFailureReasons ==
    << "Invalid email address", "Recipient mailbox full", "Domain not found",
       "Recipient blocked sender", "Temporary delivery failure" >>

\* the state after a vendor campaign of u1 for s1 created its PENDING records
PendingLogs ==
    << [_id |-> 1, userId |-> "u1", vendor_message_id |-> <<"campaign", 1, "c1", 0>>,
        status |-> "PENDING", campaign_id |-> 1, customer_id |-> "c1",
        error_message |-> None],
       [_id |-> 2, userId |-> "u1", vendor_message_id |-> <<"campaign", 1, "c2", 0>>,
        status |-> "PENDING", campaign_id |-> 1, customer_id |-> "c2",
        error_message |-> None] >>

\* the message VendorApiService is given, and the pair VendorService is given
ApiMessageIds == {PendingLogs[1].vendor_message_id}
BatchPairs == {[campaignId |-> PendingLogs[2].campaign_id,
                customerId |-> PendingLogs[2].customer_id]}

\* VendorApiService.sendMessage: the outcome is drawn and a timer is set that will
\* schedule the receipt; a message is handed over while no receipt of it is under way
VendorApiService_sendMessage(messageId, isSuccess, r) ==
    /\ posted < MaxSends
    /\ posted' = posted + 1
    /\ \A t \in deliveryTimers \cup deliveryQueue : t.messageId # messageId
    /\ deliveryTimers' = deliveryTimers \cup
          {[messageId |-> messageId,
            status |-> IF isSuccess THEN "SENT" ELSE "FAILED",
            deliveredAt |-> NoDate,
            errorMessage |-> IF isSuccess THEN None ELSE vendorApiFailureReasons[r]]}
    /\ UNCHANGED <<stores, ids, now, isProcessing, drain, cad, cva, vendorReqs, receiptReqs,
                   envReceiptUrl, orderStores, processor, deliveryQueue, receiptQueue, stats, resp>>

\* the timer fires: deliveryQueue.set(messageId, receipt)
scheduleDeliveryReceipt(t) ==
    /\ t \in deliveryTimers
    /\ deliveryTimers' = deliveryTimers \ {t}
    /\ deliveryQueue' = {q \in deliveryQueue : q.messageId # t.messageId}
                           \cup {[t EXCEPT !.deliveredAt = now]}
    /\ UNCHANGED <<stores, ids, now, isProcessing, drain, cad, cva, vendorReqs, receiptReqs,
                   envReceiptUrl, orderStores, processor, receiptQueue, posted, stats, resp>>

\* VendorApiService.updateDeliveryStatus: the log with the receipt's message id
updateDeliveryStatus(logs, receipt) ==
    UpdateFirst(logs, LAMBDA d : d.vendor_message_id = receipt.messageId,
                IF receipt.status = "FAILED"
                THEN [status |-> receipt.status, error_message |-> receipt.errorMessage]
                ELSE [status |-> receipt.status])

RECURSIVE updateDeliveryStatuses(_, _)
updateDeliveryStatuses(logs, receipts) ==
    IF receipts = {} THEN logs
    ELSE LET receipt == CHOOSE x \in receipts : TRUE
         IN  updateDeliveryStatuses(updateDeliveryStatus(logs, receipt), receipts \ {receipt})

\* the interval of VendorApiService: the map is copied and cleared, then every receipt
\* is written; updateDeliveryStatus catches and logs the error of a write that throws.
\*   failed : the receipts whose findOneAndUpdate throws
processDeliveryReceipts(failed) ==
    /\ deliveryQueue # {}
    /\ failed \subseteq deliveryQueue
    /\ deliveryQueue' = {}
    /\ commLogs' = updateDeliveryStatuses(commLogs, deliveryQueue \ failed)
    /\ UNCHANGED <<customers, segments, campaigns, sentMessages, ids, now, isProcessing,
                   drain, cad, cva, vendorReqs, receiptReqs, envReceiptUrl, orderStores, processor, deliveryTimers,
                   receiptQueue, posted, stats, resp>>

\* VendorService.sendMessage: the outcome is drawn and, after the delay, the receipt is
\* pushed on the queue
VendorService_sendMessage(messageData, success, rnd) ==
    /\ posted < MaxSends
    /\ posted' = posted + 1
    /\ receiptQueue' = Append(receiptQueue,
          [campaignId |-> messageData.campaignId,
           customerId |-> messageData.customerId,
           status |-> IF success THEN "SENT" ELSE "FAILED",
           vendorMessageId |-> <<"vendor", now, rnd>>,
           errorMessage |-> IF success THEN None
                            ELSE "Vendor delivery failed - simulated error"])
    /\ UNCHANGED <<stores, ids, now, isProcessing, drain, cad, cva, vendorReqs, receiptReqs,
                   envReceiptUrl, orderStores, processor, deliveryTimers, deliveryQueue, stats, resp>>

BATCH_SIZE == 10

\* the updateOne operations of the bulkWrite, the first n of the batch
RECURSIVE bulkWrite(_, _, _)
bulkWrite(logs, batch, n) ==
    IF n = 0 THEN logs
    ELSE LET receipt == batch[n]
             set == IF receipt.errorMessage # None
                    THEN [status |-> receipt.status,
                          vendor_message_id |-> receipt.vendorMessageId,
                          error_message |-> receipt.errorMessage]
                    ELSE [status |-> receipt.status,
                          vendor_message_id |-> receipt.vendorMessageId]
         IN  UpdateFirst(bulkWrite(logs, batch, n - 1),
                         LAMBDA d : /\ d.campaign_id = receipt.campaignId
                                    /\ d.customer_id = receipt.customerId,
                         set)

\* the interval of VendorService: up to BATCH_SIZE receipts are taken off the queue and
\* written in one bulkWrite; when it throws the batch is put back at the front.
\*   written : the operations applied before the bulkWrite threw; all of them when it
\*             did not throw
processBatchReceipts(written) ==
    /\ Len(receiptQueue) > 0
    /\ LET size == IF Len(receiptQueue) < BATCH_SIZE THEN Len(receiptQueue) ELSE BATCH_SIZE
           batch == SubSeq(receiptQueue, 1, size)
           rest == SubSeq(receiptQueue, size + 1, Len(receiptQueue))
       IN  /\ written \in 0..size
           /\ commLogs' = bulkWrite(commLogs, batch, written)
           /\ receiptQueue' = IF written = size THEN rest ELSE batch \o rest
    /\ UNCHANGED <<customers, segments, campaigns, sentMessages, ids, now, isProcessing,
                   drain, cad, cva, vendorReqs, receiptReqs, envReceiptUrl, orderStores, processor, deliveryTimers,
                   deliveryQueue, posted, stats, resp>>

\* the delivery simulators at work on the PENDING records of a vendor campaign; the
\* timers fire, the intervals run, and a write that can succeed eventually does
ReceiptInit ==
    /\ customers = InitCustomers
    /\ segments = InitSegments
    /\ campaigns = << [_id |-> 1, userId |-> "u1", segment_id |-> "s1", status |-> "ACTIVE"] >>
    /\ sentMessages = <<>>
    /\ commLogs = PendingLogs
    /\ ids = [campaign |-> 2, sent |-> 1, comm |-> 3, segment |-> 1]
    /\ now = 0
    /\ isProcessing = FALSE
    /\ drain = 0
    /\ cad = IdleCad
    /\ cva = IdleCva
    /\ vendorReqs = {}
    /\ receiptReqs = {}
    /\ envReceiptUrl \in {None, ReceiptRoute}
    /\ deliveryTimers = {}
    /\ deliveryQueue = {}
    /\ receiptQueue = <<>>
    /\ processor = InitProcessor
    /\ posted = 0
    /\ redis = FALSE
    /\ ordersQueue = <<>>
    /\ orders = <<>>
    /\ ingest = [requests |-> 0, accepted |-> {}]
    /\ stats = IdleStats
    /\ resp = [op |-> None, code |-> 0]

ReceiptNext ==
    \/ Tick
    \/ \E m \in ApiMessageIds, isSuccess \in BOOLEAN, r \in ReasonIdx :
          VendorApiService_sendMessage(m, isSuccess, r)
    \/ \E t \in deliveryTimers : scheduleDeliveryReceipt(t)
    \/ \E failed \in SUBSET deliveryQueue : processDeliveryReceipts(failed)
    \/ \E d \in BatchPairs, success \in BOOLEAN, rnd \in {0, 1} :
          VendorService_sendMessage(d, success, rnd)
    \/ \E written \in 0..BATCH_SIZE : processBatchReceipts(written)

ReceiptFairness ==
    /\ WF_vars(\E t \in deliveryTimers : scheduleDeliveryReceipt(t))
    /\ WF_vars(\E failed \in SUBSET deliveryQueue : processDeliveryReceipts(failed))
    /\ SF_vars(processDeliveryReceipts({}))
    /\ SF_vars(\E written \in 0..BATCH_SIZE :
                  /\ written >= Len(receiptQueue)
                  /\ processBatchReceipts(written))

ReceiptSpec == ReceiptInit /\ [][ReceiptNext]_vars /\ ReceiptFairness

----------------------------------------------------------------------------
(* EmailDeliveryService: src/src/services/customerSpendCalculation.ts *)

\* the sent messages and logs after addToQueue(message) with outcome f
QueuedSent(sent, nextIds, message, f) ==
    IF f = "sent" THEN sent
    ELSE Append(sent, [_id |-> nextIds.sent, userId |-> message.userId,
                       messageId |-> message.messageId, status |-> "QUEUED",
                       campaignId |-> NoCampaign, errorMessage |-> None,
                       createdAt |-> now])

QueuedLogs(logs, nextIds, message, f) ==
    IF f = "ok"
    THEN Append(logs, [_id |-> nextIds.comm, userId |-> message.userId,
                       vendor_message_id |-> message.messageId, status |-> "QUEUED",
                       campaign_id |-> NoCampaign, customer_id |-> None,
                       error_message |-> None])
    ELSE logs

QueuedIds(nextIds, f) ==
    [nextIds EXCEPT !.sent = IF f = "sent" THEN @ ELSE @ + 1,
                    !.comm = IF f = "ok" THEN @ + 1 ELSE @]

\* the catch block of sendSingleEmail: the newest PENDING sent message of the user to
\* that recipient becomes FAILED; a recipient is named by the customer it belongs to,
\* and the PENDING records are those of vendor campaigns, whose id holds the customer
PendingTo(sent, u, to) ==
    { i \in DOMAIN sent : /\ sent[i].status = "PENDING"
                          /\ sent[i].userId = u
                          /\ sent[i].messageId[1] = "campaign"
                          /\ sent[i].messageId[3] = to }

NewestPendingTo(sent, u, to) ==
    { i \in PendingTo(sent, u, to) :
        \A j \in PendingTo(sent, u, to) : sent[j].createdAt <= sent[i].createdAt }

\* sendSingleEmail(userEmail, to, template) for the user u of userEmail
\*   f \in QueueFaults : the outcome of addToQueue
sendSingleEmail(u, to, f) ==
    /\ posted < MaxEmails
    /\ posted' = posted + 1
    /\ LET messageId == <<"individual", u, now>>
           message == [userId |-> u, messageId |-> messageId]
           queued == QueuedSent(sentMessages, ids, message, f)
       IN  /\ commLogs' = QueuedLogs(commLogs, ids, message, f)
           /\ ids' = QueuedIds(ids, f)
           /\ IF f = "ok"
              THEN /\ sentMessages' = queued
                   /\ resp' = [op |-> "sendSingleEmail", code |-> 200, success |-> TRUE,
                               totalEmails |-> 1, successful |-> 1, failed |-> 0,
                               messageId |-> messageId]
              ELSE /\ IF NewestPendingTo(queued, u, to) = {}
                      THEN sentMessages' = queued
                      ELSE \E i \in NewestPendingTo(queued, u, to) :
                              sentMessages' = [queued EXCEPT
                                                 ![i].status = "FAILED",
                                                 ![i].errorMessage = "addToQueue failed"]
                   /\ resp' = [op |-> "sendSingleEmail", code |-> 200, success |-> FALSE,
                               totalEmails |-> 1, successful |-> 0, failed |-> 1,
                               messageId |-> NoMessageId]
    /\ UNCHANGED <<customers, segments, campaigns, now, isProcessing, drain, cad, cva,
                   vendorReqs, receiptReqs, envReceiptUrl, orderStores, processor, simulators, stats>>

\* the loop of sendBulkEmails over the customers of the request, from customer i on
\*   fs[i] : the outcome of addToQueue for customer i
RECURSIVE bulkLoop(_, _, _, _, _)
bulkLoop(acc, u, list, fs, i) ==
    IF i > Len(list) THEN acc
    ELSE LET message == [userId |-> u, messageId |-> <<"bulk", u, list[i], now>>]
         IN  bulkLoop([sent |-> QueuedSent(acc.sent, acc.ids, message, fs[i]),
                       logs |-> QueuedLogs(acc.logs, acc.ids, message, fs[i]),
                       ids |-> QueuedIds(acc.ids, fs[i]),
                       successful |-> IF fs[i] = "ok" THEN acc.successful + 1
                                      ELSE acc.successful,
                       failed |-> IF fs[i] = "ok" THEN acc.failed ELSE acc.failed + 1],
                      u, list, fs, i + 1)

\* the customer lists of bulk requests
BulkLists == { <<"c1">>, <<"c1", "c2">> }

\* sendBulkEmails(userEmail, customers, template) for the user u of userEmail
sendBulkEmails(u, list, fs) ==
    /\ posted < MaxEmails
    /\ posted' = posted + 1
    /\ LET out == bulkLoop([sent |-> sentMessages, logs |-> commLogs, ids |-> ids,
                            successful |-> 0, failed |-> 0], u, list, fs, 1)
       IN  /\ sentMessages' = out.sent
           /\ commLogs' = out.logs
           /\ ids' = out.ids
           /\ resp' = [op |-> "sendBulkEmails", code |-> 200, success |-> TRUE,
                       totalEmails |-> Len(list), successful |-> out.successful,
                       failed |-> out.failed, messageId |-> NoMessageId]
    /\ UNCHANGED <<customers, segments, campaigns, now, isProcessing, drain, cad, cva,
                   vendorReqs, receiptReqs, envReceiptUrl, orderStores, processor, simulators, stats>>

\* the three producers of queued messages: campaign deliveries, single and bulk emails
EmailRequests ==
    \/ \E u \in Users, to \in {"c1"}, f \in QueueFaults : sendSingleEmail(u, to, f)
    \/ \E u \in Users, list \in BulkLists :
          \E fs \in [1..Len(list) -> QueueFaults] : sendBulkEmails(u, list, fs)

EmailNext ==
    \/ Tick
    \/ \E u \in Users, s \in SegmentIds, m \in Templates : createCampaign(u, s, m, "ok")
    \/ createAndDeliverCustomer("ok")
    \/ EmailRequests

EmailSpec == Init /\ [][EmailNext]_vars

----------------------------------------------------------------------------
(* MessageQueueService with its timers and the executions of processQueue explicit: *)
(* src/unnamed/part_015                                                             *)

\* the test of the timer callback and of the first line of processQueue
Busy_Never == FALSE

Busy == isProcessing

RemoveAt(s, k) == SubSeq(s, 1, k - 1) \o SubSeq(s, k + 1, Len(s))

\* the callback of timer t runs: nothing when the flag is set; otherwise processQueue
\* sets the flag and looks for the oldest QUEUED message.
\*   f = "find" : the findOne throws (caught; finally clears the flag)
wakeUp(t, f) ==
    /\ t \in processor.timers
    /\ processor.wakeUps < MaxWakeUps
    /\ LET counted == [processor EXCEPT !.wakeUps = @ + 1]
       IN  IF Busy
           THEN /\ processor' = [counted EXCEPT !.busyWakeUps = @ + 1]
                /\ UNCHANGED isProcessing
           ELSE IF f = "find" \/ OldestQueued = {}
           THEN /\ processor' = counted
                /\ isProcessing' = FALSE
           ELSE /\ \E m \in OldestQueued :
                      processor' = [counted EXCEPT !.running = Append(@, m._id)]
                /\ isProcessing' = TRUE
    /\ UNCHANGED <<stores, ids, now, drain, cad, cva, vendorReqs, receiptReqs,
                   envReceiptUrl, orderStores, simulators, stats, posted, resp>>

\* the rest of the k-th drain in flight, after the delay: the outcome is drawn, both
\* documents are written, finally clears the flag.
\*   f \in QueueFaults : "sent" the first update throws, "comm" the second one
processQueueFinish(k, isSuccess, r, f) ==
    /\ k \in DOMAIN processor.running
    /\ LET queuedMessage == FindById(sentMessages, processor.running[k])
           finalStatus == IF isSuccess THEN "SENT" ELSE "FAILED"
           errorMessage == IF isSuccess THEN None ELSE failureReasons[r]
           sentUpdate == IF isSuccess
                         THEN [status |-> finalStatus]
                         ELSE [status |-> finalStatus, errorMessage |-> errorMessage]
           commUpdate == IF isSuccess
                         THEN [status |-> finalStatus]
                         ELSE [status |-> finalStatus, error_message |-> errorMessage]
       IN  /\ sentMessages' =
                 IF f = "sent" THEN sentMessages
                 ELSE UpdateFirst(sentMessages, LAMBDA d : d._id = processor.running[k],
                                  sentUpdate)
           /\ commLogs' =
                 IF f = "ok"
                 THEN UpdateFirst(commLogs,
                                  LAMBDA d : d.vendor_message_id = queuedMessage.messageId,
                                  commUpdate)
                 ELSE commLogs
    /\ isProcessing' = FALSE
    /\ processor' = [processor EXCEPT !.running = RemoveAt(@, k)]
    /\ UNCHANGED <<customers, segments, campaigns, ids, now, drain, cad, cva, vendorReqs,
                   receiptReqs, envReceiptUrl, orderStores, simulators, stats, posted, resp>>

\* setProcessingInterval(interval): the current timer, if any, is cleared and a new
\* one is set
setProcessingInterval(interval) ==
    /\ processor.processingInterval < MaxTimers
    /\ processor' =
          IF processor.processingInterval # 0
          THEN [processor EXCEPT
                  !.processingDelay = interval,
                  !.timers = (@ \ {processor.processingInterval})
                                \cup {processor.processingInterval + 1},
                  !.processingInterval = @ + 1]
          ELSE [processor EXCEPT !.processingDelay = interval]
    /\ UNCHANGED <<stores, ids, now, isProcessing, drain, cad, cva, vendorReqs, receiptReqs,
                   envReceiptUrl, orderStores, simulators, stats, posted, resp>>

\* the message queue: single emails are enqueued, the timers wake the drain loop up,
\* the interval may be changed
DrainNext ==
    \/ Tick
    \/ \E f \in QueueFaults : sendSingleEmail("u1", "c1", f)
    \/ \E t \in processor.timers, f \in {"ok", "find"} : wakeUp(t, f)
    \/ \E k \in DOMAIN processor.running, isSuccess \in BOOLEAN, r \in ReasonIdx,
          f \in QueueFaults : processQueueFinish(k, isSuccess, r, f)
    \/ \E interval \in {1000} : setProcessingInterval(interval)

DrainSpec == Init /\ [][DrainNext]_vars

\* the two campaign requests that write delivery records, without the deliveries
CreationNext ==
    \/ Tick
    \/ \E u \in Users, s \in SegmentIds \cup {MissingId}, m \in Templates :
          createCampaign(u, s, m, "ok")
    \/ \E f \in QueueFaults \cup {"personalize"} : createAndDeliverCustomer(f)
    \/ \E u \in Users, s \in SegmentIds \cup {MissingId}, m \in Templates :
          createCampaignWithVendorAPI(u, s, m, "ok")
    \/ \E f \in {"ok", "comm", "sent"} : vendorAPICustomer(f)

CreationSpec == Init /\ [][CreationNext]_vars

\* the rule trees of segment requests: the nodes whose list entries are leaves or groups
IsRule(e) == DOMAIN e \cap {"field", "and", "or"} # {}

FixRules ==
    { r \in RuleNodes :
        /\ ("and" \in DOMAIN r => \A i \in DOMAIN r.and : IsRule(r.and[i]))
        /\ ("or" \in DOMAIN r => \A i \in DOMAIN r.or : IsRule(r.or[i])) }

\* a createSegment / updateSegment request with rules_json, seen for one customer
FixInit ==
    /\ InitServer
    /\ segments = InitSegments
    /\ cad = IdleCad
    /\ stats = IdleStats
    /\ \E c \in Range(InitCustomers), r \in FixRules :
          resp = [op |-> "fixRuleStructure", code |-> 0, customer |-> c, rule |-> r,
                  fixedRules |-> <<>>, done |-> FALSE]

\* const fixedRules = fixRuleStructure(req.body.rules_json)
fixRuleStructureCall ==
    /\ resp.op = "fixRuleStructure"
    /\ ~resp.done
    /\ resp' = [resp EXCEPT !.fixedRules = fixRuleStructure(resp.rule), !.done = TRUE]
    /\ UNCHANGED <<stores, ids, now, isProcessing, drain, cad, cva, vendorReqs, receiptReqs,
                   envReceiptUrl, orderStores, processor, simulators, stats, posted>>

FixNext ==
    \/ Tick
    \/ fixRuleStructureCall

FixSpec == FixInit /\ [][FixNext]_vars

\* a segment whose population failed when it was created, or never ran
Unpopulated(seg) ==
    [seg EXCEPT !.customer_ids = <<>>, !.customer_count = 0, !.last_populated_at = NoDate]

\* the segment endpoints; each segment present at start-up is populated or not
SegmentInit ==
    /\ InitServer
    /\ resp = [op |-> None, code |-> 0]
    /\ \E S \in SUBSET DOMAIN InitSegments :
          segments = [i \in DOMAIN InitSegments |->
                         IF i \in S THEN Unpopulated(InitSegments[i]) ELSE InitSegments[i]]
    /\ cad = IdleCad
    /\ stats = IdleStats

SegmentNext ==
    \/ Tick
    \/ \E u \in Users, r \in RuleInputs : createSegment(u, r)
    \/ \E u \in Users : listSegments(u)
    \/ \E u \in Users, id \in SegmentIds \cup {MissingId} : getSegment(u, id)
    \/ \E u \in Users, id \in SegmentIds \cup {MissingId}, r \in RuleInputs :
          updateSegment(u, id, r)
    \/ \E u \in Users, id \in SegmentIds \cup {MissingId} : deleteSegment(u, id)
    \/ \E u \in Users, id \in SegmentIds \cup {MissingId} : getSegmentCustomers(u, id)

SegmentSpec == SegmentInit /\ [][SegmentNext]_vars

\* the segment endpoints with every kind of update body
UpdateNext ==
    \/ Tick
    \/ \E u \in Users : listSegments(u)
    \/ \E u \in Users, id \in SegmentIds \cup {MissingId}, r \in RuleInputs :
          updateSegment(u, id, r)
    \/ \E u \in Users, id \in SegmentIds \cup {MissingId}, body \in SegmentFieldBodies :
          updateSegmentFields(u, id, body)

UpdateSpec == SegmentInit /\ [][UpdateNext]_vars

\* the resource endpoints next to fault-free campaign creation
CrudNext ==
    \/ \E u \in Users, s \in SegmentIds \cup {MissingId}, m \in Templates :
          createCampaign(u, s, m, "ok")
    \/ createAndDeliverCustomer("ok")
    \/ \E u \in Users, s \in SegmentIds \cup {MissingId}, m \in Templates :
          createCampaignWithVendorAPI(u, s, m, "ok")
    \/ vendorAPICustomer("ok")
    \/ \E u \in Users, id \in CampaignIds, body \in CampaignUpdateBodies :
          updateCampaign(u, id, body)
    \/ \E u \in Users, id \in CampaignIds : deleteCampaign(u, id)
    \/ \E u \in Users, id \in SegmentIds \cup {MissingId} : getSegment(u, id)
    \/ \E u \in Users, id \in SegmentIds \cup {MissingId}, r \in RuleInputs :
          updateSegment(u, id, r)
    \/ \E u \in Users, id \in SegmentIds \cup {MissingId} : deleteSegment(u, id)
    \/ \E u \in Users, id \in SegmentIds \cup {MissingId} : getSegmentCustomers(u, id)

CrudSpec == Init /\ [][CrudNext]_vars

\* both pipelines without faults and without receipts from other callers
LiveNext ==
    \/ Tick
    \/ \E u \in Users, s \in SegmentIds \cup {MissingId}, m \in Templates :
          createCampaign(u, s, m, "ok")
    \/ createAndDeliverCustomer("ok")
    \/ \E u \in Users, s \in SegmentIds \cup {MissingId}, m \in Templates :
          createCampaignWithVendorAPI(u, s, m, "ok")
    \/ vendorAPICustomer("ok")
    \/ \E req \in vendorReqs, isSuccess \in BOOLEAN, r \in ReasonIdx :
          vendorSend(req, isSuccess, r)
    \/ \E body \in receiptReqs : vendorReceipt(body, "ok")
    \/ DrainTick("ok")
    \/ \E isSuccess \in BOOLEAN, r \in ReasonIdx : DrainFinish(isSuccess, r, "ok")

\* what keeps running: a started request loop goes on, the timer keeps firing
\* (setInterval), a pass of processQueue finishes, an HTTP request that was sent is
\* handled
LiveFairness ==
    /\ WF_vars(createAndDeliverCustomer("ok"))
    /\ WF_vars(vendorAPICustomer("ok"))
    /\ WF_vars(\E req \in vendorReqs, isSuccess \in BOOLEAN, r \in ReasonIdx :
                  vendorSend(req, isSuccess, r))
    /\ WF_vars(\E body \in receiptReqs : vendorReceipt(body, "ok"))
    /\ WF_vars(DrainTick("ok"))
    /\ WF_vars(\E isSuccess \in BOOLEAN, r \in ReasonIdx : DrainFinish(isSuccess, r, "ok"))

LiveSpec == Init /\ [][LiveNext]_vars /\ LiveFairness

----------------------------------------------------------------------------
(* Properties *)

\* ids the documents of the two delivery collections can get
DocIds == 1..(MaxCampaigns * Len(InitCustomers))

\* C1 (liveness of delivery): every sent message and every communication log that is
\* QUEUED or PENDING is eventually SENT or FAILED, when nothing fails and the timer and
\* the vendor keep running (LiveSpec).
C1_EveryMessageSettles ==
    \A id \in DocIds :
        /\ (\E d \in Range(sentMessages) : d._id = id /\ d.status \in NonTerminal)
              ~> (\E d \in Range(sentMessages) : d._id = id /\ d.status \in Terminal)
        /\ (\E d \in Range(commLogs) : d._id = id /\ d.status \in NonTerminal)
              ~> (\E d \in Range(commLogs) : d._id = id /\ d.status \in Terminal)

\* C2 (terminal stability): no step changes the status of a sent message or of a
\* communication log that is SENT or FAILED.
C2_TerminalStatusStable ==
    [][ /\ \A d \in Range(sentMessages) : \A e \in Range(sentMessages') :
              (d._id = e._id /\ d.status \in Terminal) => e.status = d.status
        /\ \A d \in Range(commLogs) : \A e \in Range(commLogs') :
              (d._id = e._id /\ d.status \in Terminal) => e.status = d.status ]_vars

\* C3 (receipt idempotence): a well-formed receipt for a message whose record is already
\* SENT or FAILED, handled without a database fault, changes neither collection and is
\* answered with success.
C3_RepeatReceiptIsNoOp ==
    [][ \A body \in ReceiptBodies :
          ( /\ postReceipt(body, "ok")
            /\ body.status \in Terminal
            /\ \E d \in Range(commLogs) :
                  d.vendor_message_id = body.messageId /\ d.status \in Terminal )
          => (UNCHANGED <<sentMessages, commLogs>> /\ resp'.code = 200) ]_vars

\* C4 (dual-write consistency): once no request loop and no pass of the queue is under
\* way, no sent message waits in the queue and no vendor request or receipt is in
\* flight, a sent message and a communication log of the same message id, one of which
\* is SENT or FAILED, have the same status, even where one of the two writes failed.
C4_DualWriteConsistent ==
    ( /\ ~isProcessing /\ OldestQueued = {}
      /\ cad.pc # "loop" /\ cva.pc # "loop"
      /\ vendorReqs = {} /\ receiptReqs = {} )
    => \A m \in Range(sentMessages) : \A l \in Range(commLogs) :
          (m.messageId = l.vendor_message_id /\ (m.status \in Terminal \/ l.status \in Terminal))
          => m.status = l.status

\* C5 (campaign state machine): a campaign whose delivery request has processed all its
\* customers is COMPLETED; it is not left ACTIVE.
C5_FinishedCampaignCompleted ==
    (cad.pc = "done" /\ cad.campaignId # NoCampaign)
    => \A c \in Range(campaigns) : c._id = cad.campaignId => c.status = "COMPLETED"

\* C6 (zero matching customers): a campaign request for an owned segment that no
\* customer matches answers 201 with totalCustomers 0 and messagesQueued 0 and the id of
\* a campaign it created, which is COMPLETED; it creates no delivery record.
C6_EmptySegmentCampaign ==
    [][ \A u \in Users, s \in SegmentIds, m \in Templates :
          ( /\ createCampaign(u, s, m, "ok")
            /\ validateTemplate(m).isValid
            /\ \E d \in Range(segments) :
                  d._id = s /\ d.userId = u /\ getCustomersForSegment(d) = <<>> )
          => ( /\ cad'.result.code = 201
               /\ cad'.result.totalCustomers = 0
               /\ cad'.result.messagesQueued = 0
               /\ \E c \in Range(campaigns') :
                     /\ c._id = cad'.result.campaignId
                     /\ c.status = "COMPLETED"
                     /\ \A o \in Range(campaigns) : o._id # c._id
               /\ UNCHANGED <<sentMessages, commLogs>> ) ]_vars

\* C7 (failure isolation): the loop of createAndDeliverCampaign goes through every
\* customer of the segment whatever fails for one of them: while it runs it has one
\* entry per customer handled, and when it answers the result lists exactly one entry
\* per matching customer, in order, QUEUED (with its sent message) or FAILED.
C7_FailureIsolation ==
    /\ cad.pc = "loop" =>
          /\ cad.i \in 1..Len(cad.customers)
          /\ Len(cad.deliveryLogs) = cad.i - 1
    /\ (cad.pc = "done" /\ cad.campaignId # NoCampaign) =>
          /\ cad.result.code = 201
          /\ cad.customers = Ids(getCustomersForSegment(FindById(segments, cad.segmentId)))
          /\ cad.result.totalCustomers = Len(cad.customers)
          /\ Len(cad.result.deliveryLogs) = Len(cad.customers)
          /\ \A k \in DOMAIN cad.customers :
                LET log == cad.result.deliveryLogs[k]
                IN  /\ log.customerId = cad.customers[k]
                    /\ log.status \in {"QUEUED", "FAILED"}
                    /\ log.status = "QUEUED" =>
                          \E d \in Range(sentMessages) : d.messageId = log.messageId

\* a request that answered after its first customer failed and a later one was queued
C7_Witness ==
    /\ cad.pc = "done"
    /\ Len(cad.customers) >= 2
    /\ cad.result.code = 201
    /\ cad.result.deliveryLogs[1].status = "FAILED"
    /\ cad.result.deliveryLogs[2].status = "QUEUED"

\* C8 (failure records): for every customer whose processing threw, a FAILED
\* communication log and a FAILED sent message of that customer's message are in the
\* collections when the request answers.
C8_FailureRecordsPersisted ==
    (cad.pc = "done" /\ cad.campaignId # NoCampaign)
    => \A k \in DOMAIN cad.result.deliveryLogs :
          LET log == cad.result.deliveryLogs[k]
              ofCustomer(id) ==
                  Len(id) = 4 /\ id[2] = cad.campaignId /\ id[3] = log.customerId
          IN  log.status = "FAILED" =>
                 /\ \E l \in Range(commLogs) :
                       l.status = "FAILED" /\ ofCustomer(l.vendor_message_id)
                 /\ \E d \in Range(sentMessages) :
                       d.status = "FAILED" /\ ofCustomer(d.messageId)

\* C9 (template validation): a campaign request whose message holds a {word}
\* placeholder outside the allowed set is answered 400 with a non-empty list of invalid
\* placeholders, none of them allowed, that covers every such placeholder, and with
\* the allowed set; no campaign, sent message or communication log is created.
C9_InvalidTemplateRejected ==
    LET m == cad.message
        unknown == { i \in 1..(Len(m) - 2) :
                        /\ m[i] = "{" /\ IsWord(m[i + 1]) /\ m[i + 2] = "}"
                        /\ SubSeq(m, i, i + 2) \notin getAvailablePlaceholders }
        listed == IF "invalidPlaceholders" \in DOMAIN cad.result
                  THEN cad.result.invalidPlaceholders ELSE <<>>
    IN  (cad.pc # "received" /\ unknown # {}) =>
           /\ cad.pc = "done"
           /\ cad.result.code = 400
           /\ listed # <<>>
           /\ \A k \in DOMAIN listed : listed[k] \notin getAvailablePlaceholders
           /\ \A i \in unknown : \E k \in DOMAIN listed :
                 /\ Len(listed[k]) >= 3
                 /\ SubSeq(listed[k], Len(listed[k]) - 2, Len(listed[k])) = SubSeq(m, i, i + 2)
           /\ cad.result.availablePlaceholders = getAvailablePlaceholders
           /\ campaigns = <<>>
           /\ sentMessages = <<>>
           /\ commLogs = <<>>

\* a rejected request whose message has an allowed placeholder before an unknown one
C9_Witness ==
    /\ cad.pc = "done"
    /\ cad.message = <<"{", "name", "}", "{", "foo", "}">>
    /\ cad.result.code = 400
    /\ cad.result.invalidPlaceholders = << <<"{", "foo", "}">> >>

\* C10 (not found): campaign creation for a segment, update or delete of a campaign,
\* read, update or delete of a segment, where the named segment or campaign does not
\* exist or is not the caller's, answers 404 and changes no collection.
C10_NotFoundNoEffect ==
    [][ LET ownsSegment(u, id) == \E d \in Range(segments) : d._id = id /\ d.userId = u
            ownsCampaign(u, id) == \E d \in Range(campaigns) : d._id = id /\ d.userId = u
        IN  /\ \A u \in Users, s \in SegmentIds \cup {MissingId}, m \in Templates :
                  /\ (createCampaign(u, s, m, "ok") /\ validateTemplate(m).isValid
                         /\ ~ownsSegment(u, s))
                       => (cad'.result.code = 404 /\ UNCHANGED stores)
                  /\ (createCampaignWithVendorAPI(u, s, m, "ok") /\ validateTemplate(m).isValid
                         /\ ~ownsSegment(u, s))
                       => (cva'.result.code = 404 /\ UNCHANGED stores)
            /\ \A u \in Users, id \in CampaignIds :
                  /\ \A body \in CampaignUpdateBodies :
                        ( /\ updateCampaign(u, id, body)
                          /\ \/ ~ownsCampaign(u, id)
                             \/ body.segment_id # None /\ ~ownsSegment(u, body.segment_id) )
                        => (resp'.code = 404 /\ UNCHANGED stores)
                  /\ (deleteCampaign(u, id) /\ ~ownsCampaign(u, id))
                       => (resp'.code = 404 /\ UNCHANGED stores)
            /\ \A u \in Users, id \in SegmentIds \cup {MissingId} :
                  /\ (getSegment(u, id) /\ ~ownsSegment(u, id))
                       => (resp'.code = 404 /\ UNCHANGED stores)
                  /\ \A r \in RuleInputs :
                        (updateSegment(u, id, r) /\ ~ownsSegment(u, id))
                        => (resp'.code = 404 /\ UNCHANGED stores)
                  /\ (deleteSegment(u, id) /\ ~ownsSegment(u, id))
                       => (resp'.code = 404 /\ UNCHANGED stores) ]_vars

\* C11 (tenancy boundary): a request of caller u answers with documents of u only and
\* leaves every segment and campaign of another owner as it was; a campaign it updates
\* does not come to reference a segment of another owner.
C11_TenancyBoundary ==
    [][ LET othersUntouched(u) ==
                /\ \A d \in Range(segments) : d.userId # u => d \in Range(segments')
                /\ \A d \in Range(campaigns) : d.userId # u => d \in Range(campaigns')
                /\ customers' = customers
        IN  /\ \A u \in Users, id \in SegmentIds \cup {MissingId} :
                  /\ getSegmentCustomers(u, id) =>
                        /\ othersUntouched(u)
                        /\ resp'.code = 200 =>
                              \A k \in DOMAIN resp'.customers : resp'.customers[k].userId = u
                  /\ getSegment(u, id) =>
                        /\ othersUntouched(u)
                        /\ resp'.code = 200 => resp'.segment.userId = u
                  /\ deleteSegment(u, id) => othersUntouched(u)
                  /\ \A r \in RuleInputs : updateSegment(u, id, r) => othersUntouched(u)
            /\ \A u \in Users, id \in CampaignIds :
                  /\ deleteCampaign(u, id) => othersUntouched(u)
                  /\ \A body \in CampaignUpdateBodies :
                        updateCampaign(u, id, body) =>
                           /\ othersUntouched(u)
                           /\ \A c \in Range(campaigns') :
                                 (c.userId = u /\ c \notin Range(campaigns)) =>
                                    \E g \in Range(segments) :
                                       g._id = c.segment_id /\ g.userId = u ]_vars

\* C12 (one log per campaign customer): when createAndDeliverCampaign has answered for a
\* campaign with n matching customers, all of them queued without a failure, the
\* communication logs that carry the campaign's
\* reference are n, one per matching customer with that customer's reference, and the
\* total the statistics count for the campaign is n.
C12_OneLogPerCampaignCustomer ==
    ( /\ cad.pc = "done" /\ cad.campaignId # NoCampaign
      /\ \A k \in DOMAIN cad.deliveryLogs : cad.deliveryLogs[k].status = "QUEUED" ) =>
        LET ofCampaign == SelectSeq(commLogs, LAMBDA d : d.campaign_id = cad.campaignId)
        IN  /\ Len(ofCampaign) = Len(cad.customers)
            /\ \A k \in DOMAIN cad.customers :
                  \E j \in DOMAIN ofCampaign :
                     /\ ofCampaign[j].customer_id = cad.customers[k]
                     /\ \A i \in DOMAIN ofCampaign :
                           ofCampaign[i].customer_id = cad.customers[k] => i = j
            /\ countDocuments(cad.campaignId, cad.userId, AnyStatus) = Len(cad.customers)

\* C13 (statistics invariant): the counts a statistics request answers with satisfy
\* sent + failed + pending + queued = total, also when a record changes its status
\* between the count reads of the request.
C13_StatsCountsAddUp ==
    (stats.pc = "done" /\ stats.result.code = 200) =>
        stats.result.sent + stats.result.failed + stats.result.pending
           + stats.result.queued = stats.result.total

\* C14 (rates): for every total and every sent and failed counts with
\* sent + failed <= total, the successRate and failureRate of the response (in
\* hundredths of a percent) add up to at most 100.00, and both are 0 when total is 0.
C14_RatesAtMostHundred ==
    (stats.pc = "done" /\ stats.result.code = 200
        /\ stats.result.sent + stats.result.failed <= stats.result.total) =>
        /\ stats.result.successRate + stats.result.failureRate <= 10000
        /\ stats.result.total = 0 =>
              (stats.result.successRate = 0 /\ stats.result.failureRate = 0)

C16_GroupSemantics ==
    LET r == resp.rule
        c == resp.customer
        isGroup == ~IsNull(r) /\ "field" \notin DOMAIN r
        emptyAnd == "and" \in DOMAIN r /\ r.and = <<>>
        populatedOr == "or" \in DOMAIN r /\ r.or # <<>>
        noNull(l) == \A i \in DOMAIN l :
                        /\ ~IsNull(l[i])
                        /\ "and" \in DOMAIN l[i] => \A j \in DOMAIN l[i].and : ~IsNull(l[i].and[j])
                        /\ "or" \in DOMAIN l[i] => \A j \in DOMAIN l[i].or : ~IsNull(l[i].or[j])
    IN  (resp.op = "evaluateRule" /\ resp.outcome # None /\ isGroup) =>
           /\ (emptyAnd /\ ~populatedOr) => resp.outcome = "true"
           /\ (populatedOr /\ noNull(r.or) /\ ("and" \in DOMAIN r => r.and = <<>>)) =>
                 (resp.outcome = "true"
                    <=> \E i \in DOMAIN r.or : evaluateRuleOutcome(c, r.or[i]) = "true")

\* C17 (no error conditions): evaluateRule never throws, whatever the entries of the
\* lists of the node (null included), and on a malformed node (neither field nor and/or,
\* or a leaf with an operator or a field it does not know) it returns true.
C17_MalformedIsPermissive ==
    LET r == resp.rule
        malformed ==
            \/ DOMAIN r \cap {"field", "and", "or"} = {}
            \/ /\ "field" \in DOMAIN r
               /\ \/ r.op \notin {">", ">=", "<", "<=", "==", "!="}
                  \/ r.field \notin {"spend", "visits", "inactive_days"}
    IN  (resp.op = "evaluateRule" /\ resp.outcome # None) =>
           /\ resp.outcome # "throws"
           /\ malformed => resp.outcome = "true"

\* C18 (greeting insertion): for every template, customer and custom data, a template
\* that does not start with "hi ", "hello " or "dear " (whatever the case) yields the
\* message "Hi <customerName>, " followed by the substituted template, and a template
\* that starts with one of them yields the substituted template with no prefix.
C18_GreetingInsertion ==
    (resp.op = "personalizeMessage" /\ resp.done) =>
        LET data == personalizationData(resp.customer, FallbackName, resp.customData)
            substituted == substitutePlaceholders(resp.message, data)
        IN  IF startsWithGreeting(resp.message)
            THEN resp.personalizedMessage = substituted
            ELSE resp.personalizedMessage =
                     <<"Hi", " ">> \o data.customerName \o <<",", " ">> \o substituted

\* C19 (a reason on every failure): in every reachable state, every communication log
\* and every sent message whose status is FAILED carries an error reason, whichever
\* path recorded the failure.
C19_FailedHasReason ==
    /\ \A i \in DOMAIN commLogs :
          commLogs[i].status = "FAILED" => commLogs[i].error_message # None
    /\ \A i \in DOMAIN sentMessages :
          sentMessages[i].status = "FAILED" => sentMessages[i].errorMessage # None

\* C20 (no receipt is lost): every receipt the delivery simulators schedule or queue,
\* the single receipts of VendorApiService and the batched ones of VendorService, is
\* eventually applied to the communication log of its message, also when a write
\* failed on an earlier flush.
C20_NoReceiptLost ==
    /\ \A m \in ApiMessageIds :
          (\E t \in deliveryTimers \cup deliveryQueue : t.messageId = m)
             ~> (\E i \in DOMAIN commLogs : /\ commLogs[i]._id = PendingLogs[1]._id
                                            /\ commLogs[i].status \in Terminal)
    /\ \A d \in BatchPairs :
          (\E i \in DOMAIN receiptQueue : /\ receiptQueue[i].campaignId = d.campaignId
                                          /\ receiptQueue[i].customerId = d.customerId)
             ~> (\E i \in DOMAIN commLogs : /\ commLogs[i].campaign_id = d.campaignId
                                            /\ commLogs[i].customer_id = d.customerId
                                            /\ commLogs[i].status \in Terminal)

\* C21 (unique message ids): over any sequence of campaign deliveries, single sends and
\* bulk sends, no two sent messages and no two communication logs carry the same
\* message id.
C21_MessageIdsUnique ==
    /\ \A i, j \in DOMAIN sentMessages :
          sentMessages[i].messageId = sentMessages[j].messageId => i = j
    /\ \A i, j \in DOMAIN commLogs :
          commLogs[i].vendor_message_id = commLogs[j].vendor_message_id => i = j

\* C22 (mutual exclusion of the drain loop): at no time are two drains in flight, and a
\* wake-up that fires while a drain is in flight reads nothing and writes nothing, also
\* after setProcessingInterval replaced the timer.
C22_DrainMutualExclusion ==
    /\ [](Len(processor.running) <= 1)
    /\ [][(isProcessing /\ processor'.wakeUps # processor.wakeUps)
             => /\ UNCHANGED <<stores, isProcessing>>
                /\ processor'.running = processor.running]_vars

C22_Witness ==
    /\ processor.busyWakeUps >= 1
    /\ processor.processingInterval # InitProcessor.processingInterval
    /\ Len(processor.running) = 1
    /\ isProcessing

C24_OneMessagePerWakeUp ==
    /\ [][Len(processor'.running) < Len(processor.running)
             => \E i \in DOMAIN sentMessages :
                   /\ sentMessages[i].status = "QUEUED"
                   /\ sentMessages'[i].status \in Terminal
                   /\ \A j \in DOMAIN sentMessages \ {i} :
                         sentMessages'[j] = sentMessages[j]]_vars
    /\ [][(processor'.wakeUps # processor.wakeUps /\ ~isProcessing
              /\ \E m \in Range(sentMessages) : m.status = "QUEUED")
             => Len(processor'.running) > Len(processor.running)]_vars
    /\ [][(processor'.wakeUps # processor.wakeUps /\ ~isProcessing
              /\ \A m \in Range(sentMessages) : m.status # "QUEUED")
             => (UNCHANGED stores /\ ~isProcessing')]_vars

\* the campaign a record belongs to: its campaign reference, or the campaign named in
\* its message id when it has none
CampaignOfLog(d) ==
    IF d.campaign_id # NoCampaign THEN d.campaign_id ELSE d.vendor_message_id[2]

CampaignOfSent(m) ==
    IF m.campaignId # NoCampaign THEN m.campaignId ELSE m.messageId[2]

\* C25 (campaign before its records): the campaign a communication log or a sent
\* message belongs to, by its campaign reference or by its message id, is a campaign
\* record that exists, and it existed already before the record was written.
C25_CampaignBeforeRecords ==
    /\ [](/\ \A d \in Range(commLogs) : CampaignOfLog(d) \in Range(Ids(campaigns))
          /\ \A m \in Range(sentMessages) : CampaignOfSent(m) \in Range(Ids(campaigns)))
    /\ [][/\ \A i \in DOMAIN commLogs' \ DOMAIN commLogs :
                CampaignOfLog(commLogs'[i]) \in Range(Ids(campaigns))
          /\ \A i \in DOMAIN sentMessages' \ DOMAIN sentMessages :
                CampaignOfSent(sentMessages'[i]) \in Range(Ids(campaigns))]_vars

C25_Witness ==
    /\ \E d \in Range(commLogs) : d.campaign_id # NoCampaign
    /\ \E m \in Range(sentMessages) : m.campaignId # NoCampaign
    /\ cva.pc = "done"

\* C26 (normalization keeps the meaning): for every rule tree of a segment request and
\* every customer, the tree fixRuleStructure stores evaluates to what the submitted
\* tree evaluates to, or-only groups and nested groups included.
C26_FixKeepsMeaning ==
    (resp.op = "fixRuleStructure" /\ resp.done) =>
        evaluateRuleOutcome(resp.customer, resp.fixedRules)
            = evaluateRuleOutcome(resp.customer, resp.rule)


----------------------------------------------------------------------------
(* Order ingestion: src/src/controllers/orders.ts, src/src/queues/orders.queue.ts,
   src/src/workers/customers.worker.ts *)

\* ordersQueue.add('create', data, {removeOnComplete: true, attempts: 3})
attempts == 3

\* OrderModel.create({userId, customer_id, amount, items, date}); `request` is the number
\* of the ingestion request whose body the document was made from
NewOrder(data) ==
    [_id |-> Len(orders) + 1, userId |-> data.userId, customer_id |-> data.customer_id,
     amount |-> data.amount, request |-> data.request]

\* enqueueOrder: false without a queue, else one more job carrying the body and the user
enqueueOrder(payload, userId) ==
    IF redis
    THEN Append(ordersQueue, [data |-> [payload EXCEPT !.userId = userId], attemptsMade |-> 0])
    ELSE ordersQueue

\* POST /orders with a customer_id that is a valid ObjectId.
\*   f = "enqueue"  : ordersQueue.add throws (only with a queue); 500, nothing written
\*   f = "create"   : OrderModel.create throws after the enqueue; 500
\*   f = "populate" : findById(...).populate throws after the create; 500
ingestOrder(u, customer_id, amount, f) ==
    /\ ingest.requests < MaxOrders
    /\ f = "enqueue" => redis
    /\ LET n == ingest.requests + 1
           body == [userId |-> None, customer_id |-> customer_id, amount |-> amount,
                    request |-> n]
           created == NewOrder([body EXCEPT !.userId = u])
       IN  /\ ordersQueue' = IF f = "enqueue" THEN ordersQueue ELSE enqueueOrder(body, u)
           /\ orders' = IF f \in {"enqueue", "create"} THEN orders ELSE Append(orders, created)
           /\ ingest' = [requests |-> n,
                         accepted |-> IF f = "ok"
                                      THEN ingest.accepted \cup
                                             {[request |-> n, userId |-> u,
                                               customer_id |-> customer_id, amount |-> amount]}
                                      ELSE ingest.accepted]
           /\ resp' = IF f = "ok"
                      THEN [op |-> "ingestOrder", code |-> 201, id |-> created._id]
                      ELSE [op |-> "ingestOrder", code |-> 500, id |-> 0]
    /\ UNCHANGED <<stores, ids, now, isProcessing, drain, cad, cva, vendorReqs, receiptReqs,
                   envReceiptUrl, redis, processor, simulators, stats, posted>>

\* the 'orders' worker takes the oldest waiting job.
\*   f = "create"   : OrderModel.create throws
\*   f = "populate" : findById(...).populate throws after the create
\* a job that threw is tried again until it was attempted `attempts` times
ordersWorker(f) ==
    /\ redis
    /\ ordersQueue # <<>>
    /\ LET job == Head(ordersQueue)
           failed == [job EXCEPT !.attemptsMade = @ + 1]
       IN  /\ orders' = IF f = "create" THEN orders ELSE Append(orders, NewOrder(job.data))
           /\ ordersQueue' =
                 IF f = "ok" \/ failed.attemptsMade >= attempts
                 THEN Tail(ordersQueue)
                 ELSE <<failed>> \o Tail(ordersQueue)
    /\ UNCHANGED <<stores, ids, now, isProcessing, drain, cad, cva, vendorReqs, receiptReqs,
                   envReceiptUrl, redis, ingest, processor, simulators, stats, posted, resp>>

RECURSIVE SumAmounts(_)
SumAmounts(seq) == IF seq = <<>> THEN 0 ELSE Head(seq).amount + SumAmounts(Tail(seq))

\* calculateCustomerSpend: the sum of the amounts of the customer's orders
calculateCustomerSpend(customerId, userId) ==
    SumAmounts(SelectSeq(orders, LAMBDA o : o.customer_id = customerId /\ o.userId = userId))

OrderAmounts == {100, 250}

OrderFaults == {"ok", "enqueue", "create", "populate"}

OrderInit ==
    /\ customers = InitCustomers
    /\ segments = InitSegments
    /\ campaigns = <<>>
    /\ sentMessages = <<>>
    /\ commLogs = <<>>
    /\ ids = [campaign |-> 1, sent |-> 1, comm |-> 1, segment |-> 1]
    /\ now = 0
    /\ isProcessing = FALSE
    /\ drain = 0
    /\ cad = IdleCad
    /\ cva = IdleCva
    /\ vendorReqs = {}
    /\ receiptReqs = {}
    /\ envReceiptUrl \in {None, ReceiptRoute}
    /\ deliveryTimers = {}
    /\ deliveryQueue = {}
    /\ receiptQueue = <<>>
    /\ processor = InitProcessor
    /\ posted = 0
    /\ stats = IdleStats
    /\ resp = [op |-> None, code |-> 0]
    /\ redis \in BOOLEAN
    /\ ordersQueue = <<>>
    /\ orders = <<>>
    /\ ingest = [requests |-> 0, accepted |-> {}]

OrderNext ==
    \/ Tick
    \/ \E c \in {"c1", "c2"}, amount \in OrderAmounts, f \in OrderFaults :
          ingestOrder("u1", c, amount, f)
    \/ \E f \in OrderFaults \ {"enqueue"} : ordersWorker(f)

OrderSpec == OrderInit /\ [][OrderNext]_vars

\* the entries of a delivery result that carry one status
WithStatus(logs, status) == { k \in DOMAIN logs : logs[k].status = status }

\* C27 (result counters): when createAndDeliver answers, totalCustomers is the number of
\* per-customer entries, messagesQueued the number of QUEUED entries and messagesFailed
\* the number of FAILED entries, so that queued + failed = totalCustomers.
C27_ResultCounters ==
    (cad.pc = "done" /\ cad.campaignId # NoCampaign) =>
        /\ cad.result.totalCustomers = Len(cad.result.deliveryLogs)
        /\ cad.result.messagesQueued
              = Cardinality(WithStatus(cad.result.deliveryLogs, "QUEUED"))
        /\ cad.result.messagesFailed
              = Cardinality(WithStatus(cad.result.deliveryLogs, "FAILED"))
        /\ cad.result.messagesQueued + cad.result.messagesFailed
              = cad.result.totalCustomers


\* C28 (enqueue is all or nothing): a message whose addToQueue failed, and which the
\* request therefore lists as FAILED, has no QUEUED sent message and no QUEUED
\* communication log left under its id, and is never drained to SENT afterwards.
C28_EnqueueAllOrNothing ==
    \A k \in DOMAIN cad.deliveryLogs :
        LET log == cad.deliveryLogs[k]
        IN  log.status = "FAILED" =>
               /\ \A m \in Range(sentMessages) :
                     m.messageId = log.messageId => m.status \notin {"QUEUED", "SENT"}
               /\ \A l \in Range(commLogs) :
                     l.vendor_message_id = log.messageId => l.status # "QUEUED"


\* the orders made from the body of one ingestion request
OrdersOf(n) == { k \in DOMAIN orders : orders[k].request = n }

\* the jobs of one ingestion request that still wait in the queue
JobsOf(n) == { k \in DOMAIN ordersQueue : ordersQueue[k].data.request = n }

RECURSIVE AcceptedAmount(_)
AcceptedAmount(S) ==
    IF S = {} THEN 0 ELSE LET a == CHOOSE x \in S : TRUE IN a.amount + AcceptedAmount(S \ {a})

\* C29 (one order per accepted request): once no job of it waits in the queue, an
\* ingestion request answered 201 has exactly one order document, with the queue or
\* without it; and when every request was accepted and the queue is empty, a customer's
\* calculated spend is the sum of the amounts of the accepted requests for that customer.
C29_OneOrderPerRequest ==
    /\ \A a \in ingest.accepted :
          JobsOf(a.request) = {} => Cardinality(OrdersOf(a.request)) = 1
    /\ (ordersQueue = <<>> /\ Cardinality(ingest.accepted) = ingest.requests) =>
          \A c \in {"c1", "c2"} :
             calculateCustomerSpend(c, "u1")
                = AcceptedAmount({ a \in ingest.accepted : a.customer_id = c })


\* C30 (updates without rules): an updateSegment request whose body carries no rules
\* leaves customer_ids, customer_count, last_populated_at and the owner of the segment
\* as they were, and customer_count is the length of customer_ids in every state.
C30_UpdateKeepsSnapshot ==
    /\ [][ (posted' # posted /\ resp'.op = "updateSegmentFields") =>
             \A g \in Range(segments) :
                g._id = resp'.id =>
                   \E h \in Range(segments') :
                      /\ h._id = g._id
                      /\ h.customer_ids = g.customer_ids
                      /\ h.customer_count = g.customer_count
                      /\ h.last_populated_at = g.last_populated_at
                      /\ h.userId = g.userId ]_vars
    /\ [](\A g \in Range(segments) : g.customer_count = Len(g.customer_ids))

============================================================================
